---- MODULE Spec2Model ----
(***************************************************************************)
(* Payment-gated agreement registration (LinkSignX402).                    *)
(*                                                                         *)
(* The model follows the server's two protected routes, POST /api/create   *)
(* and POST /api/sign, one step per await of the handlers, together with   *)
(* the collaborators they call: the storage upload, the x402 facilitator   *)
(* (verify / settle) and the AgreementOracle contract on the ledger        *)
(* (reads, simulation, broadcast, inclusion).  Several requests run        *)
(* concurrently, one per slot, interleaved at their awaits.                *)
(*                                                                         *)
(* Hashes are modelled as collision-free numberings of their (bounded)     *)
(* pre-images; external failures (transport errors, timeouts, a declined   *)
(* settlement) are drawn nondeterministically from a bounded fault budget. *)
(***************************************************************************)
EXTENDS Integers, Sequences, FiniteSets, TLC

\* ------------------------------------------------------------------ bounds

\* New requests issued over a run.
MaxRequests == 2

\* External failures (transport errors, timeouts, declined settlements) over a run.
MaxFaults == 1

\* Concurrent request slots (handlers in flight at once).
Slots == {1, 2}

\* ------------------------------------------------------------ input domains

NoField == "<missing>"

\* Creator / signer addresses as they arrive in a body; "0xBAD" fails the regex.
Addresses == {"0xA1", "0xA2"}

\* fileBase64 values: a document, a whitespace-only string (decodes to zero
\* bytes), a string atob rejects and a missing field.
FileInputs == {"b64:doc1", " ", "!!", NoField}

\* Payment headers: absent, undecodable, or a decodable signed authorization.
\* An authorization is bound to the amount it was signed for.
NoHeader == "<none>"
\* The handler has not read the request's headers yet.
Unread == "<unread>"
GarbageHeader == "<garbage>"
\* c1, c2 are signed for the create price, s1, s2 for the sign price.
Proofs == {"c1", "c2", "s1", "s2"}
Headers == {NoHeader, GarbageHeader} \cup Proofs

Routes == {"create", "sign"}

\* ------------------------------------------------------------ configuration

\* paymentConfig of the server.
PaymentConfigValue ==
  [ network |-> "eip155:84532",
    payTo |-> "0xPAYEE",
    usdcAddress |-> "0x036CbD53842c5426634e7929541eC2318f3dCF7e",
    prices |-> [ create |-> <<"$", "0", ".", "0", "1">>,
                 sign |-> <<"$", "0", ".", "0", "0", "1">> ] ]

ChainRefValue == "eip155:84532"

\* --------------------------------------------------------------- parsePrice

Digits == {"0", "1", "2", "3", "4", "5", "6", "7", "8", "9"}

DigitValue(c) ==
  CASE c = "0" -> 0 [] c = "1" -> 1 [] c = "2" -> 2 [] c = "3" -> 3 [] c = "4" -> 4
    [] c = "5" -> 5 [] c = "6" -> 6 [] c = "7" -> 7 [] c = "8" -> 8 [] c = "9" -> 9

AllDigits(s) == Len(s) > 0 /\ \A i \in 1..Len(s) : s[i] \in Digits

\* Position of the first "." in s, or 0.
DotAt(s) ==
  IF \E i \in 1..Len(s) : s[i] = "."
    THEN CHOOSE i \in 1..Len(s) : s[i] = "." /\ \A j \in 1..(i - 1) : s[j] # "."
    ELSE 0

\* /^\$(\d+(?:\.\d+)?)$/
PriceMatches(price) ==
  /\ Len(price) >= 2
  /\ price[1] = "$"
  /\ LET v == SubSeq(price, 2, Len(price))
         d == DotAt(v)
     IN  IF d = 0 THEN AllDigits(v)
         ELSE AllDigits(SubSeq(v, 1, d - 1)) /\ AllDigits(SubSeq(v, d + 1, Len(v)))

RECURSIVE DecimalPrefix(_, _)
\* The value of the first n digits of s.
DecimalPrefix(s, n) ==
  IF n = 0 THEN 0 ELSE 10 * DecimalPrefix(s, n - 1) + DigitValue(s[n])

\* BigInt(digits): the value of a digit string.
DecimalValue(s) == DecimalPrefix(s, Len(s))

\* decimal.padStart(6, "0").slice(0, 6)
PadStart6(s) == SubSeq(<<"0", "0", "0", "0", "0", "0">> \o s, Len(s) + 1, Len(s) + 6)

\* decimal.padEnd(6, "0").slice(0, 6)
PadEnd6(s) == SubSeq(s \o <<"0", "0", "0", "0", "0", "0">>, 1, 6)

\* The atomic amount of a price string, or -1 where the code throws.
parsePrice(price) ==
  IF ~PriceMatches(price) THEN -1
  ELSE LET v == SubSeq(price, 2, Len(price))
           d == DotAt(v)
           whole == IF d = 0 THEN v ELSE SubSeq(v, 1, d - 1)
           decimal == IF d = 0 THEN <<>> ELSE SubSeq(v, d + 1, Len(v))
       IN  DecimalValue(whole \o PadEnd6(decimal))

BadRequirementsRoute(route) == IF route = "create" THEN "sign" ELSE "create"

buildRequirementsWrongRoute(config, route) ==
  [ scheme |-> "exact",
    network |-> config.network,
    amount |-> parsePrice(config.prices[BadRequirementsRoute(route)]),
    asset |-> config.usdcAddress,
    payTo |-> config.payTo ]

buildRequirements(config, route) ==
  [ scheme |-> "exact",
    network |-> config.network,
    amount |-> parsePrice(config.prices[route]),
    asset |-> config.usdcAddress,
    payTo |-> config.payTo ]

\* processPayment: const requirements = buildRequirements(config, route), for
\* each route under the server's configuration.
RouteRequirements ==
  [route \in Routes |-> buildRequirements(PaymentConfigValue, route)]

\* ------------------------------------------------------------------ hashing

\* atob of the normalized string: the decoded bytes, or <<-1>> where atob throws.
base64ToBytes(b64) ==
  CASE b64 = "b64:doc1" -> <<1>>
    [] b64 = " " -> <<>>
    [] OTHER -> <<-1>>

\* keccak256 of the file bytes: a collision-free numbering of the documents.
DocHashOf(bytes) == IF Len(bytes) = 0 THEN 10 ELSE 10 + bytes[1]

\* The content identifier the storage returns for the bytes.
CidOf(bytes) == IF Len(bytes) = 0 THEN 20 ELSE 20 + bytes[1]

AddressWord(a) == IF a = "0xA1" THEN 1 ELSE IF a = "0xA2" THEN 2 ELSE 0

\* encodeAbiParameters([bytes32, address, bytes32]): three fixed-width words.
encodeAbiParameters(docHash, creator, paymentRef) ==
  <<docHash, AddressWord(creator), paymentRef>>

\* keccak256 of three words: a collision-free numbering of the encodings.
keccak256Words(w) == 1000 + (w[1] * 100) + (w[2] * 10) + w[3]

computeAgreementIdNoRef(docHash, creator, paymentRef) ==
  keccak256Words(encodeAbiParameters(docHash, creator, 0))

computeAgreementId(docHash, creator, paymentRef) ==
  keccak256Words(encodeAbiParameters(docHash, creator, paymentRef))

\* -------------------------------------------------------------- hex values
\* The library functions on hex strings, on the strings themselves: a string is
\* a sequence of characters.  The state machine above works with numberings
\* of these values (DocHashOf, TxOf, AddressWord).

LowerHexChars == {"0", "1", "2", "3", "4", "5", "6", "7", "8", "9", "a", "b", "c", "d", "e", "f"}

HexChars == LowerHexChars \cup {"A", "B", "C", "D", "E", "F"}

toLowerCase(c) ==
  CASE c = "A" -> "a" [] c = "B" -> "b" [] c = "C" -> "c"
    [] c = "D" -> "d" [] c = "E" -> "e" [] c = "F" -> "f" [] OTHER -> c

\* The value of a hex character.
HexVal(c) ==
  CASE toLowerCase(c) = "0" -> 0 [] toLowerCase(c) = "1" -> 1 [] toLowerCase(c) = "2" -> 2
    [] toLowerCase(c) = "3" -> 3 [] toLowerCase(c) = "4" -> 4 [] toLowerCase(c) = "5" -> 5
    [] toLowerCase(c) = "6" -> 6 [] toLowerCase(c) = "7" -> 7 [] toLowerCase(c) = "8" -> 8
    [] toLowerCase(c) = "9" -> 9 [] toLowerCase(c) = "a" -> 10 [] toLowerCase(c) = "b" -> 11
    [] toLowerCase(c) = "c" -> 12 [] toLowerCase(c) = "d" -> 13 [] toLowerCase(c) = "e" -> 14
    [] OTHER -> 15

HexCharOf(n) ==
  <<"0", "1", "2", "3", "4", "5", "6", "7", "8", "9", "a", "b", "c", "d", "e", "f">>[n + 1]

Repeat(c, n) == [i \in 1..n |-> c]

StartsWith0x(value) == Len(value) >= 2 /\ value[1] = "0" /\ value[2] = "x"

\* The characters after "0x".
Strip0x(value) == SubSeq(value, 3, Len(value))

\* /^0x[0-9a-fA-F]{n}$/
MatchesHex(value, n) ==
  /\ Len(value) = n + 2
  /\ StartsWith0x(value)
  /\ \A i \in 3..Len(value) : value[i] \in HexChars

\* assertBytes32's test of a string.
isBytes32(value) == MatchesHex(value, 64)

\* viem isAddress of a string without upper-case letters (no checksum applies).
isAddress(value) == MatchesHex(value, 40)

\* viem isHex(value) (strict): /^0x[0-9a-fA-F]*$/
isHex(value) == StartsWith0x(value) /\ \A i \in 3..Len(value) : value[i] \in HexChars

\* viem size(value): the bytes of a hex value, the length of anything else.
size(value) == IF StartsWith0x(value) THEN (Len(value) - 2 + 1) \div 2 ELSE Len(value)

\* What a call gives: a value, or the error it throws.
Returned(value) == [kind |-> "ok", value |-> value]

Thrown(kind) == [kind |-> kind, value |-> <<>>]

\* viem padHex(value, {size: 32}): zeros on the left, or on the right.
padLeft32(value) == Repeat("0", 64 - Len(Strip0x(value))) \o Strip0x(value)

padRight32(value) == Strip0x(value) \o Repeat("0", 64 - Len(Strip0x(value)))

\* The characters without their leading zeros.
TrimLeft(chars) ==
  IF \A i \in 1..Len(chars) : chars[i] = "0" THEN <<>>
  ELSE SubSeq(chars, CHOOSE i \in 1..Len(chars) :
                       chars[i] # "0" /\ \A j \in 1..(i - 1) : chars[j] = "0",
              Len(chars))

encodeAbiParametersPacked(docHash, creator, paymentRef) ==
  Returned(<<"0", "x">> \o TrimLeft(Strip0x(docHash)) \o TrimLeft(Strip0x(creator))
                        \o TrimLeft(Strip0x(paymentRef)))

\* viem encodeAbiParameters([bytes32, address, bytes32], [docHash, creator,
\* paymentRef]): each parameter is checked and padded to one 32-byte word, in
\* order; the encoding is the three words.
encodeAbiParametersHex(docHash, creator, paymentRef) ==
  IF size(docHash) # 32 THEN Thrown("AbiEncodingBytesSizeMismatchError")
  ELSE IF ~isAddress(creator) THEN Thrown("InvalidAddressError")
  ELSE IF size(paymentRef) # 32 THEN Thrown("AbiEncodingBytesSizeMismatchError")
  ELSE Returned(<<"0", "x">> \o padRight32(docHash)
                            \o padLeft32([i \in 1..Len(creator) |-> toLowerCase(creator[i])])
                            \o padRight32(paymentRef))

\* viem hexToBytes: an odd number of characters gets a leading zero; a
\* character that is no hex digit makes it throw.
hexToBytes(value) ==
  LET hex == IF Len(Strip0x(value)) % 2 = 1 THEN <<"0">> \o Strip0x(value) ELSE Strip0x(value)
  IN IF \E i \in 1..Len(hex) : hex[i] \notin HexChars
       THEN Thrown("BaseError")
       ELSE Returned([i \in 1..(Len(hex) \div 2) |->
                        16 * HexVal(hex[2 * i - 1]) + HexVal(hex[2 * i])])

\* The UTF-8 byte of a character of the texts used here.
CharCode(c) ==
  CASE c = "0" -> 48 [] c = "1" -> 49 [] c = "x" -> 120 [] c = "h" -> 104
    [] c = "i" -> 105 [] c = "z" -> 122 [] OTHER -> 63

\* viem toBytes(value): a string that is a hex value is read as hex, any
\* other string is encoded as UTF-8.
toBytes(value) ==
  IF isHex(value) THEN hexToBytes(value)
  ELSE Returned([i \in 1..Len(value) |-> CharCode(value[i])])

\* 32-byte words: a nibble at the low end, or at the high end.
WordLow(c) == <<"0", "x">> \o Repeat("0", 63) \o <<c>>

WordHigh(c) == <<"0", "x">> \o <<c>> \o Repeat("0", 63)

\* 20-byte addresses ending with the characters given.
AddressEnding(tail) == <<"0", "x">> \o Repeat("0", 40 - Len(tail)) \o tail

\* The values the functions are called with: well-formed ones, and ones that
\* are too short, too long, or hold a character that is no hex digit.
Bytes32Values == {WordLow("1"), WordLow("2"), WordHigh("1"),
                  <<"0", "x">> \o Repeat("0", 62) \o <<"1", "1">>}

BadBytes32Values == {<<>>, <<"0", "x", "1", "2">>, <<"0", "x">> \o Repeat("0", 63),
                     <<"0", "x">> \o Repeat("0", 65), <<"0", "x">> \o Repeat("z", 64)}

AddressValues == {AddressEnding(<<"1">>), AddressEnding(<<"2">>), AddressEnding(<<"1", "2">>)}

BadAddressValues == {<<>>, <<"0", "x">> \o Repeat("0", 39), <<"0", "x">> \o Repeat("0", 41),
                     <<"0", "x">> \o Repeat("z", 40), Repeat("0", 42)}

Texts == {<<>>, <<"h", "i">>, <<"h", "i", "i">>, <<"0", "x">>, <<"0", "x", "1">>,
          <<"0", "x", "0", "1">>, <<"0", "x", "z">>, <<"z">>}

\* The arguments computeAgreementId is called with.
Triple(docHash, creator, paymentRef) ==
  [docHash |-> docHash, creator |-> creator, paymentRef |-> paymentRef]

FixedWidthTriples ==
  {Triple(d, a, p) : d \in Bytes32Values, a \in AddressValues, p \in Bytes32Values}

Triples ==
  {Triple(d, a, p) : d \in Bytes32Values \cup BadBytes32Values,
                     a \in AddressValues \cup BadAddressValues,
                     p \in Bytes32Values \cup BadBytes32Values}

\* The byte strings keccak256 is applied to.
KeccakInputs ==
  {hexToBytes(encodeAbiParametersHex(t.docHash, t.creator, t.paymentRef).value).value :
     t \in {u \in Triples :
              /\ encodeAbiParametersHex(u.docHash, u.creator, u.paymentRef).kind = "ok"
              /\ hexToBytes(encodeAbiParametersHex(u.docHash, u.creator,
                                                   u.paymentRef).value).kind = "ok"}}
  \cup {toBytes(t).value : t \in {u \in Texts : toBytes(u).kind = "ok"}}

\* An order of the byte strings: shorter first, then by the first byte that
\* differs.
BytesLess(a, b) ==
  \/ Len(a) < Len(b)
  \/ /\ Len(a) = Len(b)
     /\ \E i \in 1..Len(a) : a[i] < b[i] /\ \A j \in 1..(i - 1) : a[j] = b[j]

\* keccak256 as an ideal hash over KeccakInputs: every byte string has its
\* own 32-byte digest.
KeccakDigest ==
  [b \in KeccakInputs |->
     LET n == 1 + Cardinality({c \in KeccakInputs : BytesLess(c, b)})
     IN <<"0", "x">> \o Repeat("0", 62) \o <<HexCharOf(n \div 16), HexCharOf(n % 16)>>]

\* viem keccak256 of a hex value or of bytes: toHex of the 32-byte digest.
keccak256Hex(value) ==
  IF hexToBytes(value).kind # "ok" THEN hexToBytes(value)
  ELSE Returned(KeccakDigest[hexToBytes(value).value])

bytesToHex(bytes) ==
  Returned(<<"0", "x">> \o [i \in 1..(2 * Len(bytes)) |->
                              HexCharOf(IF i % 2 = 1 THEN bytes[(i + 1) \div 2] \div 16
                                        ELSE bytes[i \div 2] % 16)])

keccak256Bytes(bytes) == Returned(KeccakDigest[bytes])

\* computeAgreementId on hex strings: keccak256(encodeAbiParameters(...)).
computeAgreementIdHex(docHash, creator, paymentRef) ==
  IF encodeAbiParametersHex(docHash, creator, paymentRef).kind # "ok"
    THEN encodeAbiParametersHex(docHash, creator, paymentRef)
    ELSE keccak256Hex(encodeAbiParametersHex(docHash, creator, paymentRef).value)

\* hashAgreement(text): keccak256(toBytes(text)).
hashAgreement(text) ==
  IF toBytes(text).kind # "ok" THEN toBytes(text)
  ELSE keccak256Bytes(toBytes(text).value)

\* -------------------------------------------------------------- facilitator

\* The transaction identifier the facilitator's settlement of a proof yields.
\* Settlement is idempotent per proof (the trust boundary of the payment gate).
TxOf(p) ==
  CASE p = "c1" -> 1 [] p = "c2" -> 2 [] p = "s1" -> 3 [] p = "s2" -> 4 [] OTHER -> 0

\* The amount the client signed the authorization for.
SignedAmount ==
  [p \in Proofs |-> IF p \in {"s1", "s2"}
                      THEN parsePrice(PaymentConfigValue.prices.sign)
                      ELSE parsePrice(PaymentConfigValue.prices.create)]

ProofAmount(p) == SignedAmount[p]

\* The facilitator's verdict on a decoded proof against the requirements.
FacilitatorValid(p, requirements) ==
  /\ p \in {"c1", "c2", "s1", "s2"}
  /\ requirements.scheme = "exact"
  /\ requirements.amount = ProofAmount(p)
  /\ requirements.payTo = PaymentConfigValue.payTo
  /\ requirements.asset = PaymentConfigValue.usdcAddress

\* ------------------------------------------------------------ request bodies

\* The reasons the facilitator gives for an invalid payment (x402 error codes).
InvalidReasons ==
  {"insufficient_funds", "invalid_exact_evm_payload_authorization_value",
   "invalid_exact_evm_payload_signature"}

\* The facilitator executes an authorization on-chain once: settling a proof
\* it has settled already transfers nothing and returns the first transaction.
FacilitatorSettle(transfers, p) ==
  IF transfers[p] = 0 THEN [transfers EXCEPT ![p] = 1] ELSE transfers

\* verifyPayment's answer: {isValid, invalidReason?}.  An authorization signed
\* for a larger amount than required is refused without a reason, one signed
\* for less is refused for its value.
verifyPayment(p, requirements) ==
  IF FacilitatorValid(p, requirements) THEN [isValid |-> TRUE, invalidReason |-> NoField]
  ELSE IF p \in Proofs /\ ProofAmount(p) < requirements.amount
    THEN [isValid |-> FALSE,
          invalidReason |-> "invalid_exact_evm_payload_authorization_value"]
    ELSE [isValid |-> FALSE, invalidReason |-> NoField]

Body(isObject, fileBase64, creatorAddress, agreementId, signerAddress) ==
  [ isObject |-> isObject, fileBase64 |-> fileBase64, creatorAddress |-> creatorAddress,
    agreementId |-> agreementId, signerAddress |-> signerAddress ]

NullBody == Body(FALSE, NoField, NoField, 0, NoField)

CreateBodies ==
  {NullBody}
    \cup {Body(TRUE, f, "0xA1", 0, NoField) : f \in FileInputs}
    \cup {Body(TRUE, "b64:doc1", a, 0, NoField) : a \in {"0xBAD"}}

\* Agreement ids a signer may name: one that a create can register, and one
\* that is not 32 bytes of hex (0).
SignIdInputs == {computeAgreementId(DocHashOf(<<1>>), "0xA1", TxOf("c1")), 0}

SignBodies ==
  {Body(TRUE, NoField, NoField, i, "0xA1") : i \in SignIdInputs}
    \cup {Body(TRUE, NoField, NoField,
               computeAgreementId(DocHashOf(<<1>>), "0xA1", TxOf("c1")), a) :
            a \in {"0xA2", "0xBAD"}}

\* GET /api/agreement/:id carries its id in the path.
AgreementParams == {Body(TRUE, NoField, NoField, i, NoField) : i \in SignIdInputs}

\* Requests the server receives: the two protected routes, the agreement
\* lookup, and a GET of a protected path (no handler is registered for it).
RequestKinds == Routes \cup {"agreement", "other"}

BodiesOf(route) ==
  CASE route = "create" -> CreateBodies
    [] route = "sign" -> SignBodies
    [] route = "agreement" -> AgreementParams
    [] OTHER -> {NullBody}

Method(route) == IF route \in {"create", "sign"} THEN "POST" ELSE "GET"

Path(route) ==
  CASE route = "create" -> "/api/create"
    [] route = "sign" -> "/api/sign"
    [] route = "agreement" -> "/api/agreement/:id"
    [] OTHER -> "/api/create"

isProtectedRequestDefault(method, path) == TRUE

\* isProtectedRequest as the server configures it.
isProtectedRequest(method, path) ==
  method = "POST" /\ path \in {"/api/create", "/api/sign"}

\* ------------------------------------------------------------------- state

VARIABLES
  req,       \* per slot: the request in flight (or finished) and its locals
  created,   \* ledger: AgreementCreated events
  signed,    \* ledger: AgreementSigned events
  mempool,   \* ledger: transactions broadcast and not yet included
  receipts,  \* ledger: receipts of included transactions
  blockNumber, \* ledger: number of the latest block
  call,      \* a call of one of the library's pure functions: arguments and result
  paid,      \* facilitator: settlements executed, with the request they were for
  charged,   \* facilitator: on-chain transfers made, per payment authorization
  x402,      \* lazy facilitator initialization: initPromise and its attempts
  faults,    \* external failures injected so far
  issued     \* new requests issued so far

vars == <<req, created, signed, mempool, receipts, blockNumber, call, paid, charged, x402, faults, issued>>

NoChallenge == [x402Version |-> 0, error |-> "", accepts |-> <<>>]

\* No requirements were submitted to the facilitator.
NoRequirements == [scheme |-> "", network |-> "", amount |-> -1, asset |-> "", payTo |-> ""]

NoTx ==
  [ fn |-> "none", agreementId |-> 0, docHash |-> 0, cid |-> 0, creator |-> NoField,
    signer |-> NoField, paymentRef |-> 0, chainRef |-> "", dup |-> FALSE ]

\* No creator in the response.
NoParty == [address |-> NoField, paymentRef |-> 0, chainRef |-> ""]

IdleReq ==
  [ pc |-> "idle", route |-> "none", body |-> NullBody, header |-> Unread,
    fileBytes |-> <<>>, docHash |-> 0, cid |-> 0, paymentRef |-> 0, agreementId |-> 0,
    tx |-> NoTx, rpcAccepted |-> FALSE,
    status |-> 0, error |-> "", alreadyExisted |-> "absent", respTx |-> NoTx,
    respPaymentRef |-> 0,
    confirmed |-> FALSE, paymentRequired |-> NoChallenge, hasRequestId |-> FALSE,
    nUpload |-> 0, nVerify |-> 0, nSettle |-> 0, nRead |-> 0, nSim |-> 0, nSend |-> 0,
    handlerRan |-> FALSE, readFailed |-> FALSE, verdict |-> "none", verifiedOk |-> FALSE, settledOk |-> FALSE, settleTx |-> 0,
    settleOutcome |-> "none",
    readBlock |-> 0, respCreator |-> NoParty, respSigners |-> {},
    readAnswers |-> <<>>, readResults |-> <<>>, readTruth |-> <<>>,
    verifyRequirements |-> NoRequirements, settleRequirements |-> NoRequirements,
    simOutcome |-> "none", simTx |-> NoTx, sendOutcome |-> "none",
    epoch |-> 0 ]

\* Events on the ledger so far (the position the next event gets).
Height == Cardinality(created) + Cardinality(signed)

\* config.blockchain.contractStartBlock: the block the contract was deployed in.
contractStartBlock == 0

\* The widest block range the agreement lookup asks logs for.
MAX_BLOCK_RANGE == 99999

\* No pure function is being called.
NoCall == [fn |-> "none", args |-> <<>>, result |-> <<>>, done |-> FALSE]

\* The server keeps no state of its own: it starts against a ledger that is
\* empty, or that already holds an agreement an earlier run registered
\* (doc1, created by 0xA1 and paid with c1) in a block more than
\* MAX_BLOCK_RANGE blocks back.
EarlierBody == Body(TRUE, "b64:doc1", "0xA1", 0, NoField)

EarlierTx ==
  [NoTx EXCEPT !.fn = "registerAgreement",
               !.agreementId = computeAgreementId(DocHashOf(<<1>>), "0xA1", TxOf("c1")),
               !.docHash = DocHashOf(<<1>>), !.cid = CidOf(<<1>>), !.creator = "0xA1",
               !.paymentRef = TxOf("c1"), !.chainRef = ChainRefValue]

EarlierEvent ==
  [ agreementId |-> EarlierTx.agreementId, docHash |-> EarlierTx.docHash,
    cid |-> EarlierTx.cid, creator |-> EarlierTx.creator,
    paymentRef |-> EarlierTx.paymentRef, chainRef |-> EarlierTx.chainRef, seq |-> 1,
    blockNumber |-> contractStartBlock + 1 ]

Init ==
  /\ req = [r \in Slots |-> IdleReq]
  /\ \/ /\ created = {}
        /\ receipts = {}
        /\ paid = {}
        /\ charged = [p \in Proofs |-> 0]
        /\ blockNumber = contractStartBlock
     \/ /\ created = {EarlierEvent}
        /\ receipts = {[tx |-> EarlierTx, status |-> "success"]}
        /\ paid = {[proof |-> "c1", route |-> "create", body |-> EarlierBody]}
        /\ charged = [p \in Proofs |-> IF p = "c1" THEN 1 ELSE 0]
        /\ blockNumber = EarlierEvent.blockNumber + MAX_BLOCK_RANGE + 1
  /\ signed = {}
  /\ mempool = {}
  /\ call = NoCall
  /\ x402 = [initPromise |-> "null", nInitialize |-> 0, nFailed |-> 0, inFlight |-> 0]
  /\ faults = 0
  /\ issued = 0

\* c.json(body, status): the request ends with this response.
Respond(q, status, error) ==
  [q EXCEPT !.pc = "done", !.status = status, !.error = error, !.hasRequestId = TRUE]

\* next(): the route's handler starts and runs to its first await.  The
\* agreement lookup checks its id first; a path without a handler is a 404.
HandlerEntry(q) ==
  CASE q.route \in Routes -> [q EXCEPT !.pc = "validate", !.handlerRan = TRUE]
    [] q.route = "agreement" ->
         IF q.body.agreementId = 0
           THEN Respond([q EXCEPT !.handlerRan = TRUE], 400, "Invalid agreementId")
           ELSE [q EXCEPT !.pc = "lookup", !.handlerRan = TRUE]
    [] OTHER -> [q EXCEPT !.pc = "done", !.status = 404, !.error = "404 Not Found"]

ensureInitializedNoMemo(x) ==
  [x EXCEPT !.initPromise = "pending", !.nInitialize = x.nInitialize + 1,
            !.inFlight = x.inFlight + 1]

\* ensureInitialized: the memoized promise, or a new attempt that calls
\* resourceServer.initialize().
ensureInitialized(x) ==
  IF x.initPromise # "null" THEN x
  ELSE [x EXCEPT !.initPromise = "pending", !.nInitialize = x.nInitialize + 1,
                 !.inFlight = x.inFlight + 1]

\* The middleware on /api/*: a protected request awaits the initialization,
\* any other goes to its handler.
middleware(q, x) ==
  IF ~isProtectedRequest(Method(q.route), Path(q.route)) THEN HandlerEntry(q)
  ELSE IF ensureInitialized(x).initPromise = "resolved" THEN HandlerEntry(q)
  ELSE [q EXCEPT !.pc = "init"]

\* A new request enters a free slot and runs to its first await.
StartRequest(r, route, body, header) ==
  /\ req' = [req EXCEPT ![r] =
               middleware([IdleReq EXCEPT !.route = route, !.body = body,
                                          !.header = header, !.epoch = Height],
                          x402)]
  /\ x402' = IF isProtectedRequest(Method(route), Path(route))
               THEN ensureInitialized(x402) ELSE x402

Free(r) == req[r].pc \in {"idle", "done"}

\* Slots are interchangeable: a request takes the lowest slot never used, and
\* once all were used, any slot whose request has been answered.
Takes(r) ==
  /\ Free(r)
  /\ \A o \in Slots : req[o].pc = "idle" => r <= o

NewRequest(r) ==
  /\ Takes(r)
  /\ issued < MaxRequests
  /\ \E route \in RequestKinds : \E body \in BodiesOf(route) :
       StartRequest(r, route, body, Unread)
  /\ issued' = issued + 1
  /\ UNCHANGED <<created, blockNumber, call, signed, mempool, receipts, paid, charged, faults>>

\* ------------------------------------------------ facilitator initialization

\* What ends an attempt without success: the timeout wins the race,
\* initialize() rejects, or the facilitator does not support the scheme.
InitFailures ==
  [ timeout |-> "[x402] init timeout (15000ms)",
    rejected |-> "Failed to fetch supported kinds",
    unsupported |-> "Facilitator does not support \"exact\" on \"eip155:84532\"" ]

InitFailureKinds == DOMAIN InitFailures

InitRejectedKeepPromise(x) == [x EXCEPT !.nFailed = x.nFailed + 1]

\* The catch of the attempt: initPromise = null.
InitRejected(x) == [x EXCEPT !.initPromise = "null", !.nFailed = x.nFailed + 1]

InitErrorResponseContinue(q, message) == HandlerEntry(q)

\* The middleware's catch: a 500 with the error's message, next() is not called.
InitErrorResponse(q, message) == Respond(q, 500, message)

\* initialize() resolved and the scheme is supported: every request awaiting
\* the promise goes on to its handler.
InitSucceeds ==
  /\ x402.initPromise = "pending"
  /\ x402' = [x402 EXCEPT !.initPromise = "resolved", !.inFlight = @ - 1]
  /\ req' = [r \in Slots |-> IF req[r].pc = "init" THEN HandlerEntry(req[r]) ELSE req[r]]
  /\ UNCHANGED <<created, blockNumber, call, signed, mempool, receipts, paid, charged, faults, issued>>

\* The attempt fails: every request awaiting the promise is answered 500.
\* When the timeout wins Promise.race the initialize() call it raced is not
\* cancelled and goes on running.
InitFails(kind) ==
  /\ x402.initPromise = "pending"
  /\ x402' = [InitRejected(x402) EXCEPT !.inFlight = IF kind = "timeout" THEN @ ELSE @ - 1]
  /\ req' = [r \in Slots |-> IF req[r].pc = "init"
                               THEN InitErrorResponse(req[r], InitFailures[kind])
                               ELSE req[r]]
  /\ UNCHANGED <<created, blockNumber, call, signed, mempool, receipts, paid, charged, faults, issued>>

\* An initialize() call whose attempt was abandoned by the timeout settles:
\* nobody awaits it any more.
AbandonedInitializeSettles ==
  /\ x402.inFlight > (IF x402.initPromise = "pending" THEN 1 ELSE 0)
  /\ x402' = [x402 EXCEPT !.inFlight = @ - 1]
  /\ UNCHANGED <<req, created, blockNumber, call, signed, mempool, receipts, paid, charged,
                 faults, issued>>

\* -------------------------------------------------------------- validation

ValidationOk == [kind |-> "ok", message |-> ""]
ValidationFailure(message) == [kind |-> "ValidationError", message |-> message]
\* An exception that is not a ValidationError (atob's InvalidCharacterError).
OtherThrow(message) == [kind |-> "Error", message |-> message]

validateCreateBodyNoEmptyCheck(body) ==
  IF ~body.isObject THEN ValidationFailure("Invalid JSON body")
  ELSE IF body.fileBase64 = NoField \/ body.fileBase64 = ""
    THEN ValidationFailure("Missing fileBase64")
  ELSE IF body.creatorAddress \notin Addresses
    THEN ValidationFailure("Invalid creatorAddress")
  ELSE IF base64ToBytes(body.fileBase64) = <<-1>>
    THEN OtherThrow("InvalidCharacterError")
  ELSE ValidationOk

validateCreateBody(body) ==
  IF ~body.isObject THEN ValidationFailure("Invalid JSON body")
  ELSE IF body.fileBase64 = NoField \/ body.fileBase64 = ""
    THEN ValidationFailure("Missing fileBase64")
  ELSE IF body.creatorAddress \notin Addresses
    THEN ValidationFailure("Invalid creatorAddress")
  ELSE IF base64ToBytes(body.fileBase64) = <<-1>>
    THEN OtherThrow("InvalidCharacterError")
  ELSE IF Len(base64ToBytes(body.fileBase64)) = 0
    THEN ValidationFailure("Empty file")
  ELSE ValidationOk

\* lib/validation's validateSignBody: both fields must be well-formed.
validateSignBody(body) ==
  IF ~body.isObject THEN ValidationFailure("Invalid JSON body")
  ELSE IF body.agreementId = 0 THEN ValidationFailure("Invalid agreementId")
  ELSE IF body.signerAddress \notin Addresses
    THEN ValidationFailure("Invalid signerAddress")
  ELSE ValidationOk

\* c.req.path.startsWith("/api/")
IsApiPath(path) == path \in {"/api/create", "/api/sign", "/api/agreement/:id"}

\* c.text("Internal Server Error", 500): a plain-text body, no requestId.
InternalServerErrorText(q) ==
  [q EXCEPT !.pc = "done", !.status = 500, !.error = "Internal Server Error"]

onErrorText(q, kind, message) == InternalServerErrorText(q)

\* app.onError: under /api/ a ValidationError is a 400, anything else a 500,
\* both as JSON with the error's message and the requestId.
onError(q, kind, message) ==
  IF IsApiPath(Path(q.route))
    THEN Respond(q, IF kind = "ValidationError" THEN 400 ELSE 500, message)
    ELSE InternalServerErrorText(q)

\* /api/create up to the upload: validateCreateBody and keccak256(fileBytes).
CreateValidated(q) ==
  LET v == validateCreateBody(q.body)
  IN  IF v.kind # "ok" THEN onError(q, v.kind, v.message)
      ELSE [q EXCEPT !.pc = "upload",
                     !.fileBytes = base64ToBytes(q.body.fileBase64),
                     !.docHash = DocHashOf(base64ToBytes(q.body.fileBase64))]

\* /api/sign up to the existence read: validateSignBody.
SignValidated(q) ==
  LET v == validateSignBody(q.body)
  IN  IF v.kind # "ok" THEN onError(q, v.kind, v.message)
      ELSE [q EXCEPT !.pc = "exists", !.agreementId = q.body.agreementId]

Validate(r) ==
  /\ req[r].pc = "validate"
  /\ req' = [req EXCEPT ![r] =
               IF req[r].route = "create" THEN CreateValidated(req[r])
               ELSE SignValidated(req[r])]
  /\ UNCHANGED <<created, blockNumber, call, signed, mempool, receipts, paid, charged, x402, faults, issued>>

\* ------------------------------------------------------------------ upload

UploadFailedContinue(q) == [q EXCEPT !.pc = "pay", !.nUpload = q.nUpload + 1]

\* The catch around uploadToIPFS uploads again.
UploadFailedRetry(q) == [q EXCEPT !.nUpload = q.nUpload + 1]

\* The catch around uploadToIPFS: 502 and return.
UploadFailed(q) ==
  Respond([q EXCEPT !.nUpload = q.nUpload + 1], 502, "IPFS upload failed")

UploadSucceeded(q) ==
  [q EXCEPT !.pc = "pay", !.cid = CidOf(q.fileBytes), !.nUpload = q.nUpload + 1]

\* uploadToIPFS: the storage returns a CID, or the upload throws.
Upload(r) ==
  /\ req[r].pc = "upload"
  /\ \/ /\ req' = [req EXCEPT ![r] = UploadSucceeded(req[r])]
        /\ UNCHANGED faults
     \/ /\ faults < MaxFaults
        /\ faults' = faults + 1
        /\ req' = [req EXCEPT ![r] = UploadFailed(req[r])]
  /\ UNCHANGED <<created, blockNumber, call, signed, mempool, receipts, paid, charged, x402, issued>>

\* ------------------------------------------------------------ payment gate

\* base64EncodeJson / base64DecodeJson: the header carries the JSON of the object.
base64EncodeJson(obj) == [base64 |-> obj]
base64DecodeJson(h) == h.base64

PaymentRequiredBodyNoAsset(requirements) ==
  [x402Version |-> 2, error |-> "Payment required",
   accepts |-> <<[requirements EXCEPT !.asset = ""]>>]

PaymentRequiredBody(requirements) ==
  [x402Version |-> 2, error |-> "Payment required",
   accepts |-> <<requirements>>]

handlePaymentErrorNoHeader(q, status, error, paymentRequiredHeader) ==
  Respond(q, status, error)

\* handlePaymentError: PAYMENT-REQUIRED is set when the result carries it.
handlePaymentError(q, status, error, paymentRequiredHeader) ==
  Respond([q EXCEPT !.paymentRequired =
                      IF paymentRequiredHeader = base64EncodeJson(NoChallenge)
                        THEN NoChallenge
                        ELSE base64DecodeJson(paymentRequiredHeader)],
          status, error)

HeaderInspectedSkipChallenge(q) ==
  IF q.header = GarbageHeader
    THEN handlePaymentError(q, 400, "Invalid payment header format",
                            base64EncodeJson(NoChallenge))
    ELSE [q EXCEPT !.pc = "verify"]


HeaderInspectedUndecoded(q) ==
  IF q.header = NoHeader
    THEN handlePaymentError(q, 402, "Payment required",
           base64EncodeJson(PaymentRequiredBody(RouteRequirements[q.route])))
    ELSE [q EXCEPT !.pc = "verify"]

\* processPayment steps 1 and 2: read the header, decode the payload.
HeaderInspected(q) ==
  IF q.header = NoHeader
    THEN handlePaymentError(q, 402, "Payment required",
           base64EncodeJson(PaymentRequiredBody(RouteRequirements[q.route])))
  ELSE IF q.header = GarbageHeader
    THEN handlePaymentError(q, 400, "Invalid payment header format",
                            base64EncodeJson(NoChallenge))
    ELSE [q EXCEPT !.pc = "verify"]

\* The request's PAYMENT-SIGNATURE / X-PAYMENT header is first looked at here:
\* whatever the client sent is drawn when the handler reads it.
Pay(r) ==
  /\ req[r].pc = "pay"
  /\ \E h \in (IF req[r].header = Unread THEN Headers ELSE {req[r].header}) :
       req' = [req EXCEPT ![r] = HeaderInspected([req[r] EXCEPT !.header = h])]
  /\ UNCHANGED <<created, blockNumber, call, signed, mempool, receipts, paid, charged, x402, faults, issued>>

AfterVerifyIgnoreResult(q, verifyResult) ==
  [q EXCEPT !.pc = "settle", !.nVerify = q.nVerify + 1,
            !.verifiedOk = verifyResult.isValid,
            !.verdict = IF verifyResult.isValid THEN "valid" ELSE "invalid"]

\* processPayment step 3: the verdict of verifyPayment decides.
AfterVerify(q, verifyResult) ==
  IF verifyResult.isValid
    THEN [q EXCEPT !.pc = "settle", !.nVerify = q.nVerify + 1, !.verifiedOk = TRUE,
                   !.verdict = "valid"]
    ELSE handlePaymentError([q EXCEPT !.nVerify = q.nVerify + 1, !.verdict = "invalid"], 402,
                            IF verifyResult.invalidReason # NoField
                              THEN verifyResult.invalidReason
                              ELSE "Payment verification failed",
                            base64EncodeJson(NoChallenge))

\* resourceServer.verifyPayment(paymentPayload, requirements) is called.
VerifyCalled(q) == [q EXCEPT !.verifyRequirements = RouteRequirements[q.route]]

Verify(r) ==
  /\ req[r].pc = "verify"
  /\ \/ /\ req' = [req EXCEPT ![r] =
                     AfterVerify(VerifyCalled(req[r]),
                       verifyPayment(req[r].header, RouteRequirements[req[r].route]))]
        /\ UNCHANGED faults
     \/ /\ faults < MaxFaults
        /\ faults' = faults + 1
        /\ req' = [req EXCEPT ![r] =
                     onError([VerifyCalled(req[r]) EXCEPT !.nVerify = req[r].nVerify + 1,
                                                          !.verdict = "threw"],
                             "Error", "verifyPayment failed")]
  /\ UNCHANGED <<created, blockNumber, call, signed, mempool, receipts, paid, charged, x402, issued>>

RegisterTxFreshId(q, agreementId, paymentRef) ==
  [NoTx EXCEPT !.fn = "registerAgreement", !.agreementId = agreementId + 1 + q.epoch,
               !.docHash = q.docHash, !.cid = q.cid, !.creator = q.body.creatorAddress,
               !.paymentRef = paymentRef, !.chainRef = ChainRefValue]

\* The arguments of the contract call each route makes.
RegisterTx(q, agreementId, paymentRef) ==
  [NoTx EXCEPT !.fn = "registerAgreement", !.agreementId = agreementId,
               !.docHash = q.docHash, !.cid = q.cid, !.creator = q.body.creatorAddress,
               !.paymentRef = paymentRef, !.chainRef = ChainRefValue]

SignatureTx(q, paymentRef) ==
  [NoTx EXCEPT !.fn = "recordSignature", !.agreementId = q.agreementId,
               !.signer = q.body.signerAddress, !.paymentRef = paymentRef,
               !.chainRef = ChainRefValue]

\* The header hash the earlier server used as the payment reference.
HeaderHash(h) == 50 + TxOf(h)

SettledHeaderRef(q, transaction) ==
  LET paymentRef == HeaderHash(q.header)
      s == [q EXCEPT !.nSettle = q.nSettle + 1, !.settledOk = TRUE,
                     !.settleOutcome = "success",
                     !.settleTx = transaction, !.paymentRef = paymentRef]
  IN  IF q.route = "create"
        THEN [s EXCEPT !.pc = "exists",
                       !.agreementId =
                         computeAgreementId(q.docHash, q.body.creatorAddress, paymentRef)]
        ELSE [s EXCEPT !.pc = "simulate", !.tx = SignatureTx(q, paymentRef)]

SettledRequestRef(q, transaction) ==
  LET paymentRef == transaction + 10 * (q.epoch + 1)
      s == [q EXCEPT !.nSettle = q.nSettle + 1, !.settledOk = TRUE,
                     !.settleOutcome = "success",
                     !.settleTx = transaction, !.paymentRef = paymentRef]
  IN  IF q.route = "create"
        THEN [s EXCEPT !.pc = "exists",
                       !.agreementId =
                         computeAgreementId(q.docHash, q.body.creatorAddress, paymentRef)]
        ELSE [s EXCEPT !.pc = "simulate", !.tx = SignatureTx(q, paymentRef)]

\* processPayment steps 4 to 6 on success, and the handler up to its next await:
\* paymentRef is the settlement's transaction.
Settled(q, transaction) ==
  LET paymentRef == transaction
      s == [q EXCEPT !.nSettle = q.nSettle + 1, !.settledOk = TRUE,
                     !.settleOutcome = "success",
                     !.settleTx = transaction, !.paymentRef = paymentRef]
  IN  IF q.route = "create"
        THEN [s EXCEPT !.pc = "exists",
                       !.agreementId =
                         computeAgreementId(q.docHash, q.body.creatorAddress, paymentRef)]
        ELSE [s EXCEPT !.pc = "simulate", !.tx = SignatureTx(q, paymentRef)]

SettleDeclinedAsVerification(q) ==
  handlePaymentError([q EXCEPT !.nSettle = q.nSettle + 1, !.settleOutcome = "declined"],
                     402, "Payment verification failed", base64EncodeJson(NoChallenge))

\* processPayment step 4 when settleResult.success is false.
SettleDeclined(q) ==
  handlePaymentError([q EXCEPT !.nSettle = q.nSettle + 1, !.settleOutcome = "declined"],
                     402, "Payment settlement failed", base64EncodeJson(NoChallenge))

PaidFor(q) == [proof |-> q.header, route |-> q.route, body |-> q.body]

\* resourceServer.settlePayment(paymentPayload, requirements) is called.
SettleCalled(q) == [q EXCEPT !.settleRequirements = RouteRequirements[q.route]]

Settle(r) ==
  /\ req[r].pc = "settle"
  /\ \/ /\ FacilitatorValid(req[r].header,
                            RouteRequirements[req[r].route])
        /\ req' = [req EXCEPT ![r] = Settled(SettleCalled(req[r]), TxOf(req[r].header))]
        /\ paid' = paid \cup {PaidFor(req[r])}
        /\ charged' = FacilitatorSettle(charged, req[r].header)
        /\ UNCHANGED faults
     \/ /\ ~FacilitatorValid(req[r].header,
                             RouteRequirements[req[r].route])
        /\ req' = [req EXCEPT ![r] = SettleDeclined(SettleCalled(req[r]))]
        /\ UNCHANGED <<paid, charged, faults>>
     \/ /\ faults < MaxFaults
        /\ faults' = faults + 1
        /\ \/ req' = [req EXCEPT ![r] = SettleDeclined(SettleCalled(req[r]))]
           \/ req' = [req EXCEPT ![r] =
                        onError([SettleCalled(req[r]) EXCEPT !.nSettle = req[r].nSettle + 1,
                                                          !.settleOutcome = "threw"],
                                "Error", "settlePayment failed")]
        /\ UNCHANGED <<paid, charged>>
  /\ UNCHANGED <<created, blockNumber, call, signed, mempool, receipts, x402, issued>>

\* ------------------------------------------------------ AgreementOracle contract

\* agreementExists(bytes32) view.
agreementExists(agreementId) == \E c \in created : c.agreementId = agreementId

\* hasSigned(bytes32, address) view.
hasSigned(agreementId, signer) ==
  \E g \in signed : g.agreementId = agreementId /\ g.signer = signer

\* The call reverts: an agreement is registered once per id, and a signature is
\* recorded once per signer of an existing agreement.
ContractReverts(t) ==
  IF t.fn = "registerAgreement" THEN agreementExists(t.agreementId)
  ELSE ~agreementExists(t.agreementId) \/ hasSigned(t.agreementId, t.signer)

CreatedEvent(t) ==
  [ agreementId |-> t.agreementId, docHash |-> t.docHash, cid |-> t.cid,
    creator |-> t.creator, paymentRef |-> t.paymentRef, chainRef |-> t.chainRef,
    seq |-> Height + 1, blockNumber |-> blockNumber + 1 ]

SignedEvent(t) ==
  [ agreementId |-> t.agreementId, signer |-> t.signer, paymentRef |-> t.paymentRef,
    chainRef |-> t.chainRef, seq |-> Height + 1, blockNumber |-> blockNumber + 1 ]

HasReceipt(t) == \E x \in receipts : x.tx = t

\* A broadcast transaction is included in the next block: it takes effect or
\* reverts.
Mine(t) ==
  /\ t \in mempool
  /\ mempool' = mempool \ {t}
  /\ blockNumber' = blockNumber + 1
  /\ IF ContractReverts(t)
       THEN /\ receipts' = receipts \cup {[tx |-> t, status |-> "reverted"]}
            /\ UNCHANGED <<created, signed>>
       ELSE /\ receipts' = receipts \cup {[tx |-> t, status |-> "success"]}
            /\ IF t.fn = "registerAgreement"
                 THEN created' = created \cup {CreatedEvent(t)} /\ UNCHANGED signed
                 ELSE signed' = signed \cup {SignedEvent(t)} /\ UNCHANGED created
  /\ UNCHANGED <<req, call, paid, charged, x402, faults, issued>>

\* ----------------------------------------------------------- ledger reads

CreateAfterExistsAlwaysRegister(q, exists) ==
  [q EXCEPT !.pc = "simulate", !.nRead = q.nRead + 1,
            !.tx = RegisterTx(q, q.agreementId, q.paymentRef)]

\* /api/create after checkAgreementExists: short-circuit, or go on to register.
CreateAfterExists(q, exists) ==
  IF exists
    THEN Respond([q EXCEPT !.nRead = q.nRead + 1, !.alreadyExisted = "true",
                           !.respPaymentRef = q.paymentRef],
                 200, "")
    ELSE [q EXCEPT !.pc = "simulate", !.nRead = q.nRead + 1,
                   !.tx = RegisterTx(q, q.agreementId, q.paymentRef)]

SignAfterExistsNoCheck(q, exists) ==
  [q EXCEPT !.pc = "hasSigned", !.nRead = q.nRead + 1]

\* /api/sign after checkAgreementExists: 404 before any payment.
SignAfterExists(q, exists) ==
  IF ~exists
    THEN Respond([q EXCEPT !.nRead = q.nRead + 1], 404, "Agreement not found")
    ELSE [q EXCEPT !.pc = "hasSigned", !.nRead = q.nRead + 1]

SignAfterHasSignedNoCheck(q, alreadySigned) ==
  [q EXCEPT !.pc = "pay", !.nRead = q.nRead + 1]

\* /api/sign after checkHasSigned: 409 before any payment.
SignAfterHasSigned(q, alreadySigned) ==
  IF alreadySigned
    THEN Respond([q EXCEPT !.nRead = q.nRead + 1], 409, "Already signed")
    ELSE [q EXCEPT !.pc = "pay", !.nRead = q.nRead + 1]

\* publicClient.readContract: the view's answer, or a throw (transport, RPC).
readContract(answer, fails) == IF fails THEN Thrown("Error") ELSE Returned(answer)

checkAgreementExistsAssumeTrue(read) == IF read.kind = "ok" THEN read.value ELSE TRUE

\* checkAgreementExists: Boolean(exists), or false from the catch.
checkAgreementExists(read) == IF read.kind = "ok" THEN read.value ELSE FALSE

\* checkHasSigned: Boolean(signed), or false from the catch.
checkHasSigned(read) == IF read.kind = "ok" THEN read.value ELSE FALSE

\* The request's note of a ledger read: what the read gave, what the check
\* function returned to the handler, and what the ledger held.
ReadNoted(q, read, result) ==
  [q EXCEPT !.readAnswers = Append(@, IF read.kind # "ok" THEN "threw"
                                      ELSE IF read.value THEN "true" ELSE "false"),
            !.readResults = Append(@, result),
            !.readTruth = Append(@, IF q.pc = "exists" THEN agreementExists(q.agreementId)
                                    ELSE hasSigned(q.agreementId, q.body.signerAddress)),
            !.readFailed = (q.readFailed \/ read.kind # "ok")]

\* A failed read is thrown to the handler.
AfterExistsRethrown(q, read) ==
  IF read.kind # "ok"
    THEN onError(ReadNoted([q EXCEPT !.nRead = q.nRead + 1], read, FALSE),
                 "Error", "readContract failed")
    ELSE IF q.route = "create"
      THEN CreateAfterExists(ReadNoted(q, read, read.value), read.value)
      ELSE SignAfterExists(ReadNoted(q, read, read.value), read.value)

\* The handler's step after checkAgreementExists returned.
AfterExists(q, read) ==
  IF q.route = "create"
    THEN CreateAfterExists(ReadNoted(q, read, checkAgreementExists(read)),
                           checkAgreementExists(read))
    ELSE SignAfterExists(ReadNoted(q, read, checkAgreementExists(read)),
                         checkAgreementExists(read))

\* checkAgreementExists: the contract's answer, or false when the read throws.
Exists(r) ==
  /\ req[r].pc = "exists"
  /\ \/ /\ req' = [req EXCEPT ![r] =
                     AfterExists(req[r],
                                 readContract(agreementExists(req[r].agreementId), FALSE))]
        /\ UNCHANGED faults
     \/ /\ faults < MaxFaults
        /\ faults' = faults + 1
        /\ req' = [req EXCEPT ![r] =
                     AfterExists(req[r],
                                 readContract(agreementExists(req[r].agreementId), TRUE))]
  /\ UNCHANGED <<created, blockNumber, call, signed, mempool, receipts, paid, charged, x402, issued>>

\* The handler's step after checkHasSigned returned.
AfterHasSigned(q, read) ==
  SignAfterHasSigned(ReadNoted(q, read, checkHasSigned(read)), checkHasSigned(read))

\* checkHasSigned: the contract's answer, or false when the read throws.
HasSigned(r) ==
  /\ req[r].pc = "hasSigned"
  /\ \/ /\ req' = [req EXCEPT ![r] =
                     AfterHasSigned(req[r],
                       readContract(hasSigned(req[r].agreementId, req[r].body.signerAddress),
                                    FALSE))]
        /\ UNCHANGED faults
     \/ /\ faults < MaxFaults
        /\ faults' = faults + 1
        /\ req' = [req EXCEPT ![r] =
                     AfterHasSigned(req[r],
                       readContract(hasSigned(req[r].agreementId, req[r].body.signerAddress),
                                    TRUE))]
  /\ UNCHANGED <<created, blockNumber, call, signed, mempool, receipts, paid, charged, x402, issued>>

\* ---------------------------------------------------------- ledger writes

SimulatedIgnoreRevert(q, reverts) ==
  [q EXCEPT !.pc = "broadcast", !.nSim = q.nSim + 1,
            !.simOutcome = IF reverts THEN "revert" ELSE "ok",
            !.simTx = IF reverts THEN q.simTx ELSE q.tx]

\* A predicted revert is answered as a conflict.
SimulatedConflict(q, reverts) ==
  IF reverts
    THEN Respond([q EXCEPT !.nSim = q.nSim + 1, !.simOutcome = "revert"], 409, "Conflict")
    ELSE [q EXCEPT !.pc = "broadcast", !.nSim = q.nSim + 1,
                   !.simOutcome = "ok", !.simTx = q.tx]

\* A predicted revert makes the helper simulate the call again.
SimulatedRetry(q, reverts) ==
  IF reverts
    THEN [q EXCEPT !.nSim = q.nSim + 1, !.simOutcome = "revert"]
    ELSE [q EXCEPT !.pc = "broadcast", !.nSim = q.nSim + 1,
                   !.simOutcome = "ok", !.simTx = q.tx]

\* sendContractTransaction after simulateContract answered: a predicted revert
\* is thrown, otherwise the request is signed and sent.
Simulated(q, reverts) ==
  IF reverts
    THEN onError([q EXCEPT !.nSim = q.nSim + 1, !.simOutcome = "revert"],
                 "Error", "execution reverted")
    ELSE [q EXCEPT !.pc = "broadcast", !.nSim = q.nSim + 1,
                   !.simOutcome = "ok", !.simTx = q.tx]

\* simulateContract: a predicted revert (or a transport error) throws.
Simulate(r) ==
  /\ req[r].pc = "simulate"
  /\ \/ /\ req' = [req EXCEPT ![r] = Simulated(req[r], ContractReverts(req[r].tx))]
        /\ UNCHANGED faults
     \/ /\ faults < MaxFaults
        /\ faults' = faults + 1
        /\ req' = [req EXCEPT ![r] =
                     onError([req[r] EXCEPT !.nSim = req[r].nSim + 1,
                                            !.simOutcome = "failed"],
                             "Error", "simulateContract failed")]
  /\ UNCHANGED <<created, blockNumber, call, signed, mempool, receipts, paid, charged, x402, issued>>

\* The signed transaction as the node sees it: an identical call signed under
\* a later nonce is another transaction.
LaterNonce(t) == [t EXCEPT !.dup = TRUE]

Known(t) == t \in mempool \/ HasReceipt(t)

\* The catch block rethrows whatever sendRawTransaction threw.
AlreadyKnownRethrown(q) ==
  onError([q EXCEPT !.nSend = q.nSend + 1, !.sendOutcome = "known"],
          "Error", "already known")

\* The catch block of sendContractTransaction for an error that says
\* "already known": not an error, the locally computed hash is kept, the
\* node did not accept the transaction from this call, and the receipt is
\* awaited as waitForConfirmation asks.
AlreadyKnown(q) ==
  [q EXCEPT !.pc = "wait", !.rpcAccepted = FALSE, !.nSend = q.nSend + 1,
            !.sendOutcome = "known"]

\* prepareTransactionRequest, signTransaction, sendRawTransaction.
Broadcast(r) ==
  /\ req[r].pc = "broadcast"
  /\ \/ \* accepted by the node
        /\ ~Known(req[r].tx)
        /\ mempool' = mempool \cup {req[r].tx}
        /\ req' = [req EXCEPT ![r] = [req[r] EXCEPT !.pc = "wait", !.rpcAccepted = TRUE,
                                                     !.nSend = req[r].nSend + 1,
                                                     !.sendOutcome = "accepted"]]
        /\ UNCHANGED faults
     \/ \* an identical call is pending under the same nonce: "already known"
        /\ req[r].tx \in mempool
        /\ req' = [req EXCEPT ![r] = AlreadyKnown(req[r])]
        /\ UNCHANGED <<mempool, faults>>
     \/ \* an identical call went out earlier: this one is signed under a later nonce
        /\ Known(req[r].tx)
        /\ ~Known(LaterNonce(req[r].tx))
        /\ mempool' = mempool \cup {LaterNonce(req[r].tx)}
        /\ req' = [req EXCEPT ![r] = [req[r] EXCEPT !.pc = "wait", !.rpcAccepted = TRUE,
                                                     !.tx = LaterNonce(req[r].tx),
                                                     !.nSend = req[r].nSend + 1,
                                                     !.sendOutcome = "accepted"]]
        /\ UNCHANGED faults
     \/ \* any other broadcast error is rethrown
        /\ faults < MaxFaults
        /\ faults' = faults + 1
        /\ req' = [req EXCEPT ![r] =
                     onError([req[r] EXCEPT !.nSend = req[r].nSend + 1,
                                            !.sendOutcome = "failed"],
                             "Error", "sendRawTransaction failed")]
        /\ UNCHANGED mempool
  /\ UNCHANGED <<created, blockNumber, call, signed, receipts, paid, charged, x402, issued>>

\* The handler's success response once sendContractTransaction returned.
Confirmed(q) ==
  Respond([q EXCEPT !.respTx = q.tx, !.confirmed = TRUE, !.respPaymentRef = q.paymentRef],
          200, "")

\* waitForTransactionReceipt({confirmations: 1}): returns once the transaction
\* is included, or throws (timeout, transport).
Wait(r) ==
  /\ req[r].pc = "wait"
  /\ \/ /\ HasReceipt(req[r].tx)
        /\ req' = [req EXCEPT ![r] = Confirmed(req[r])]
        /\ UNCHANGED faults
     \/ /\ faults < MaxFaults
        /\ faults' = faults + 1
        /\ req' = [req EXCEPT ![r] =
                     onError(req[r], "Error", "waitForTransactionReceipt failed")]
  /\ UNCHANGED <<created, blockNumber, call, signed, mempool, receipts, paid, charged, x402, issued>>

\* ------------------------------------------------------- agreement lookup

\* The range of blocks the lookup asks logs for: never before the contract's
\* deployment, and at most MAX_BLOCK_RANGE blocks back from the current block.
fromBlockUnclamped(currentBlock, startBlock) == currentBlock - MAX_BLOCK_RANGE

fromBlockFor(currentBlock, startBlock) ==
  IF currentBlock > startBlock + MAX_BLOCK_RANGE
    THEN currentBlock - MAX_BLOCK_RANGE
    ELSE startBlock

\* fromBlock under the server's configuration.
fromBlock(currentBlock) == fromBlockFor(currentBlock, contractStartBlock)

\* publicClient.getLogs: the events of the agreement in the block range.
getLogs(events, agreementId, from, to) ==
  {e \in events : e.agreementId = agreementId /\ from <= e.blockNumber /\ e.blockNumber <= to}

\* createdLogs[0]: logs are returned in ledger order.
FirstLog(logs) == CHOOSE e \in logs : \A f \in logs : e.seq <= f.seq

\* signers: one entry per signature log.
SignerEntry(log) ==
  [address |-> log.signer, paymentRef |-> log.paymentRef, chainRef |-> log.chainRef]

\* The 200 response: the creation data and the signers.
AgreementFound(q, createdLog, signedLogs) ==
  [q EXCEPT !.pc = "done", !.status = 200,
            !.agreementId = createdLog.agreementId,
            !.docHash = createdLog.docHash, !.cid = createdLog.cid,
            !.respCreator = [address |-> createdLog.creator,
                             paymentRef |-> createdLog.paymentRef,
                             chainRef |-> createdLog.chainRef],
            !.respSigners = {SignerEntry(log) : log \in signedLogs}]

\* The logs the lookup got: the creation log decides between 404 and 200.
\* Signature logs are asked for from the creation block on.
AgreementLogs(q, currentBlock) ==
  LET createdLogs == getLogs(created, q.body.agreementId, fromBlock(currentBlock), currentBlock)
  IN IF createdLogs = {}
       THEN Respond(q, 404, "Agreement not found")
       ELSE AgreementFound(q, FirstLog(createdLogs),
                           getLogs(signed, q.body.agreementId,
                                   FirstLog(createdLogs).blockNumber, currentBlock))

\* GET /api/agreement/:id after its id check: getBlockNumber, then the two
\* getLogs calls, both up to the block number read first, so the response is
\* the ledger as of that block; an RPC error is thrown to app.onError.
Lookup(r) ==
  /\ req[r].pc = "lookup"
  /\ \/ /\ req' = [req EXCEPT ![r] =
                     AgreementLogs([req[r] EXCEPT !.nRead = req[r].nRead + 1,
                                                  !.readBlock = blockNumber],
                                   blockNumber)]
        /\ UNCHANGED faults
     \/ /\ faults < MaxFaults
        /\ faults' = faults + 1
        /\ req' = [req EXCEPT ![r] =
                     onError([req[r] EXCEPT !.nRead = req[r].nRead + 1,
                                            !.readFailed = TRUE],
                             "Error", "getLogs failed")]
  /\ UNCHANGED <<created, blockNumber, call, signed, mempool, receipts, paid, charged, x402, issued>>

\* ------------------------------------------------------------ specification

Step(r) ==
  \/ NewRequest(r)
  \/ Validate(r)
  \/ Upload(r)
  \/ Pay(r)
  \/ Verify(r)
  \/ Settle(r)
  \/ Exists(r)
  \/ HasSigned(r)
  \/ Simulate(r)
  \/ Broadcast(r)
  \/ Wait(r)
  \/ Lookup(r)

Next ==
  \/ \E r \in Slots : Step(r)
  \/ \E t \in mempool : Mine(t)
  \/ InitSucceeds
  \/ \E kind \in InitFailureKinds : InitFails(kind)
  \/ AbandonedInitializeSettles

Spec == Init /\ [][Next]_vars

\* ------------------------------------------------- clients that retry

\* The ledger record a settled payment is for: the agreement registered under
\* its reference, or the signature recorded with it.
RecordFor(x) ==
  IF x.route = "create"
    THEN \E c \in created :
           /\ c.agreementId =
                computeAgreementId(DocHashOf(base64ToBytes(x.body.fileBase64)),
                                   x.body.creatorAddress, TxOf(x.proof))
           /\ c.paymentRef = TxOf(x.proof)
    ELSE \E g \in signed :
           /\ g.agreementId = x.body.agreementId
           /\ g.signer = x.body.signerAddress
           /\ g.paymentRef = TxOf(x.proof)

InFlight(route, body) ==
  \E r \in Slots : ~Free(r) /\ req[r].route = route /\ req[r].body = body

\* A client that was charged and holds no record sends the same request again,
\* with the same payment proof, once its previous attempt has been answered.
Retry(x) ==
  /\ x \in paid
  /\ ~RecordFor(x)
  /\ ~InFlight(x.route, x.body)
  /\ \E r \in Slots :
       /\ Takes(r)
       /\ StartRequest(r, x.route, x.body, x.proof)
  /\ UNCHANGED <<created, blockNumber, call, signed, mempool, receipts, paid, charged, faults, issued>>

\* The settlements that can happen: a proof the facilitator accepts for the
\* route, for a body that passes validation.
Payments ==
  {x \in [proof : Proofs, route : Routes, body : CreateBodies \cup SignBodies] :
     /\ x.body \in BodiesOf(x.route)
     /\ FacilitatorValid(x.proof, RouteRequirements[x.route])
     /\ IF x.route = "create" THEN validateCreateBody(x.body).kind = "ok"
        ELSE validateSignBody(x.body).kind = "ok"}

\* A handler in flight takes its next step.
Progress(r) ==
  \/ Validate(r)
  \/ Upload(r)
  \/ Pay(r)
  \/ Verify(r)
  \/ Settle(r)
  \/ Exists(r)
  \/ HasSigned(r)
  \/ Simulate(r)
  \/ Broadcast(r)
  \/ Wait(r)
  \/ Lookup(r)

NextLive ==
  \/ Next
  \/ \E x \in paid : Retry(x)

\* Handlers run to their response, broadcast transactions are included, and a
\* charged client keeps retrying.
SpecLive ==
  /\ Init
  /\ [][NextLive]_vars
  /\ \A r \in Slots : WF_vars(Progress(r))
  /\ WF_vars(\E t \in mempool : Mine(t))
  /\ WF_vars(InitSucceeds \/ \E kind \in InitFailureKinds : InitFails(kind))
  /\ \A x \in Payments : WF_vars(Retry(x))

\* The timeout of an initialization attempt fires unless the attempt ended,
\* and handlers run to their response.
SpecInit ==
  /\ Init
  /\ [][Next]_vars
  /\ WF_vars(InitFails("timeout"))
  /\ \A r \in Slots : WF_vars(Progress(r))

\* ------------------------------------------------------------------ claims

\* -------------------------------------------------- calls of pure functions

\* /api/create from the settlement result to the agreementId: paymentRef is
\* settleResult.transaction as it came, and goes to computeAgreementId with
\* the document's hash and the creator.
CreatePaymentRef(transaction) ==
  [computeAgreementIdHex(WordLow("1"), AddressEnding(<<"1">>), transaction)
     EXCEPT !.kind = IF @ = "ok" THEN "ok" ELSE "Error"]

\* /api/create from the settlement result to its response: the fields returned
\* to the client, and the words registerAgreement's call data carries to the
\* ledger (viem encodes a bytes32 argument as the value padded on the right
\* to 32 bytes, an address in lower case).  cid and chainRef are strings and
\* go out as they are.
CreateRegistration(transaction) ==
  LET docHash == WordLow("1")
      creator == AddressEnding(<<"1">>)
      agreementId == computeAgreementIdHex(docHash, creator, transaction)
  IN IF agreementId.kind # "ok" THEN Thrown("Error")
     ELSE Returned(
            [ response |-> [agreementId |-> agreementId.value, docHash |-> docHash,
                            creator |-> creator, paymentRef |-> transaction],
              record |-> [agreementId |-> <<"0", "x">> \o padRight32(agreementId.value),
                          docHash |-> <<"0", "x">> \o padRight32(docHash),
                          creator |-> creator,
                          paymentRef |-> <<"0", "x">> \o padRight32(transaction)] ])

\* Whole parts and fractional parts of configured prices (up to seven
\* fractional digits), and strings that are no price.
Wholes == {<<"0">>, <<"1">>, <<"0", "7">>, <<"1", "2">>}

Fractions ==
  { <<>>, <<"1">>, <<"0", "1">>, <<"5", "0">>, <<"0", "0", "1">>, <<"1", "2", "3", "4">>,
    <<"0", "0", "0", "0", "1">>, <<"9", "9", "9", "9", "9", "9">>,
    <<"0", "0", "0", "0", "0", "1">>, <<"0", "0", "0", "0", "0", "1", "9">>,
    <<"0", "0", "0", "0", "0", "0", "1">> }

\* "$W" or "$W.D"
PriceText(whole, fraction) ==
  <<"$">> \o whole \o (IF fraction = <<>> THEN <<>> ELSE <<".">> \o fraction)

BadPrices ==
  { <<>>, <<"$">>, <<"0", ".", "0", "1">>, <<"$", ".", "5">>, <<"$", "1", ".">>,
    <<"$", "1", ".", "2", ".", "3">>, <<"$", "-", "1">>, <<"$", "1", "e", "2">>,
    <<"$", " ", "1">>, <<"$", "1", ",", "5">>, <<"1", "$">>, <<"$", "$", "1">>,
    <<"$", "0", ".", "0", "1", " ">> }

Prices == {PriceText(w, d) : w \in Wholes, d \in Fractions} \cup BadPrices

\* buildRequirements under a configuration whose price for the route is
\* `price`: the requirements, or the Error parsePrice throws.
BuildRequirementsFor(price, route) ==
  IF parsePrice(price) = -1
    THEN Thrown("Error")
    ELSE Returned(buildRequirements([PaymentConfigValue EXCEPT !.prices[route] = price], route))

\* Deployment blocks, and how far the chain's head is from them (a node that
\* lags can answer a block number before the configured start block).
StartBlocks == {0, 1, 5, MAX_BLOCK_RANGE, MAX_BLOCK_RANGE + 1, 2 * MAX_BLOCK_RANGE}

BlocksSince ==
  {-1, 0, 1, 7, MAX_BLOCK_RANGE - 1, MAX_BLOCK_RANGE, MAX_BLOCK_RANGE + 1,
   MAX_BLOCK_RANGE + 2, 3 * MAX_BLOCK_RANGE}

\* The calls made: computeAgreementId on two triples, hashAgreement on two
\* texts, the create handler's step on a settlement result.
Calls ==
  {[fn |-> "computeAgreementId", args |-> <<a, b>>, result |-> <<>>, done |-> FALSE] :
     a \in FixedWidthTriples, b \in FixedWidthTriples}
  \cup {[fn |-> "computeAgreementId", args |-> <<a, a>>, result |-> <<>>, done |-> FALSE] :
          a \in Triples}
  \cup {[fn |-> "hashAgreement", args |-> <<a, b>>, result |-> <<>>, done |-> FALSE] :
          a \in Texts, b \in Texts}
  \cup {[fn |-> "create", args |-> <<t>>, result |-> <<>>, done |-> FALSE] :
          t \in Bytes32Values \cup BadBytes32Values}
  \cup {[fn |-> "registerAgreement", args |-> <<t>>, result |-> <<>>, done |-> FALSE] :
          t \in Bytes32Values \cup BadBytes32Values}
  \cup {[fn |-> "buildRequirements", args |-> <<p, route>>, result |-> <<>>, done |-> FALSE] :
          p \in Prices, route \in Routes}
  \cup {c \in {[fn |-> "fromBlock", args |-> <<b + d, b>>, result |-> <<>>, done |-> FALSE] :
                  b \in StartBlocks, d \in BlocksSince} : c.args[1] >= 0}

InitCall ==
  /\ req = [r \in Slots |-> IdleReq]
  /\ created = {} /\ signed = {} /\ mempool = {} /\ receipts = {}
  /\ blockNumber = contractStartBlock
  /\ paid = {}
  /\ charged = [p \in Proofs |-> 0]
  /\ x402 = [initPromise |-> "null", nInitialize |-> 0, nFailed |-> 0, inFlight |-> 0]
  /\ faults = 0
  /\ issued = 0
  /\ call \in Calls

CallComputeAgreementId ==
  /\ call.fn = "computeAgreementId" /\ ~call.done
  /\ call' = [call EXCEPT
                !.result = <<computeAgreementIdHex(call.args[1].docHash, call.args[1].creator,
                                                   call.args[1].paymentRef),
                             computeAgreementIdHex(call.args[2].docHash, call.args[2].creator,
                                                   call.args[2].paymentRef)>>,
                !.done = TRUE]
  /\ UNCHANGED <<req, created, signed, mempool, receipts, blockNumber, paid, charged, x402,
                 faults, issued>>

CallHashAgreement ==
  /\ call.fn = "hashAgreement" /\ ~call.done
  /\ call' = [call EXCEPT !.result = <<hashAgreement(call.args[1]), hashAgreement(call.args[2])>>,
                          !.done = TRUE]
  /\ UNCHANGED <<req, created, signed, mempool, receipts, blockNumber, paid, charged, x402,
                 faults, issued>>

CallCreatePaymentRef ==
  /\ call.fn = "create" /\ ~call.done
  /\ call' = [call EXCEPT !.result = <<CreatePaymentRef(call.args[1])>>, !.done = TRUE]
  /\ UNCHANGED <<req, created, signed, mempool, receipts, blockNumber, paid, charged, x402,
                 faults, issued>>

CallBuildRequirements ==
  /\ call.fn = "buildRequirements" /\ ~call.done
  /\ call' = [call EXCEPT !.result = <<BuildRequirementsFor(call.args[1], call.args[2])>>,
                          !.done = TRUE]
  /\ UNCHANGED <<req, created, signed, mempool, receipts, blockNumber, paid, charged, x402,
                 faults, issued>>

\* /api/create registers the agreement and answers.
CallCreateRegistration ==
  /\ call.fn = "registerAgreement" /\ ~call.done
  /\ call' = [call EXCEPT !.result = <<CreateRegistration(call.args[1])>>, !.done = TRUE]
  /\ UNCHANGED <<req, created, signed, mempool, receipts, blockNumber, paid, charged, x402,
                 faults, issued>>

\* GET /api/agreement/:id computes the range of its first getLogs call.
CallFromBlock ==
  /\ call.fn = "fromBlock" /\ ~call.done
  /\ call' = [call EXCEPT !.result = <<fromBlockFor(call.args[1], call.args[2])>>,
                          !.done = TRUE]
  /\ UNCHANGED <<req, created, signed, mempool, receipts, blockNumber, paid, charged, x402,
                 faults, issued>>

NextCall ==
  \/ CallComputeAgreementId
  \/ CallHashAgreement
  \/ CallCreatePaymentRef
  \/ CallBuildRequirements
  \/ CallFromBlock
  \/ CallCreateRegistration

SpecCall == InitCall /\ [][NextCall]_vars

Answered(r) == req[r].pc = "done"

\* The request made no call to the payment gate's facilitator and was not charged.
NoFacilitatorCall(q) == q.nVerify = 0 /\ q.nSettle = 0 /\ ~q.settledOk

\* The request neither simulated nor broadcast a ledger write.
NoLedgerWrite(q) == q.nSim = 0 /\ q.nSend = 0 /\ q.tx = NoTx

\* A registration of the agreement was on the ledger when the request was issued.
RegisteredBefore(q) ==
  \E c \in created : c.agreementId = q.agreementId /\ c.seq <= q.epoch

\* The signer's signature was on the ledger when the request was issued.
SignedBefore(q) ==
  \E g \in signed : /\ g.agreementId = q.agreementId
                    /\ g.signer = q.body.signerAddress
                    /\ g.seq <= q.epoch

\* C3: in create, a failed storage upload ends the request with 502, and the
\* request calls neither verifyPayment nor settlePayment: the client is not
\* charged.
C3_UploadFailureNeverCharges ==
  \A r \in Slots :
    (req[r].route = "create" /\ req[r].nUpload > 0 /\ req[r].cid = 0)
      => /\ Answered(r)
         /\ req[r].status = 502
         /\ NoFacilitatorCall(req[r])
         /\ req[r].header = Unread
         /\ NoLedgerWrite(req[r])

C3_Witness ==
  \E r \in Slots :
    /\ req[r].route = "create" /\ Answered(r) /\ req[r].status = 502
    /\ req[r].nUpload = 1 /\ req[r].cid = 0

\* The create bodies C4 names: not an object, no fileBase64, a malformed
\* creatorAddress, or a file that decodes to zero bytes.
C4_BadCreateBody(body) ==
  \/ ~body.isObject
  \/ body.fileBase64 = NoField
  \/ body.creatorAddress \notin Addresses
  \/ base64ToBytes(body.fileBase64) = <<>>

\* C4: such a create request, once its handler has validated the body, is
\* answered 400 without a storage upload, without the payment gate (no header
\* read, no verify, no settle) and without any ledger read or write.
C4_BadCreateBodyIs400 ==
  \A r \in Slots :
    (/\ req[r].route = "create" /\ req[r].handlerRan /\ req[r].pc # "validate"
     /\ C4_BadCreateBody(req[r].body))
      => /\ Answered(r)
         /\ req[r].status = 400
         /\ req[r].nUpload = 0
         /\ NoFacilitatorCall(req[r])
         /\ req[r].header = Unread
         /\ req[r].paymentRequired = NoChallenge
         /\ req[r].nRead = 0
         /\ NoLedgerWrite(req[r])

C4_Witness ==
  \E r \in Slots :
    /\ req[r].route = "create" /\ Answered(r) /\ req[r].status = 400
    /\ req[r].body.isObject /\ req[r].body.creatorAddress \in Addresses
    /\ base64ToBytes(req[r].body.fileBase64) = <<>>
    /\ req[r].error = "Empty file"

\* C5: a sign request whose agreementId is not on the ledger when the handler
\* has made its existence read is answered 404 and never reaches the payment
\* gate: no header is read, no challenge issued, no verify and no settle call.
\* (The ledger only grows, so an id absent now was absent at the read.)
C5_SignUnknownAgreementIs404 ==
  \A r \in Slots :
    (req[r].route = "sign" /\ req[r].nRead >= 1 /\ ~agreementExists(req[r].agreementId))
      => /\ Answered(r)
         /\ req[r].status = 404
         /\ NoFacilitatorCall(req[r])
         /\ req[r].header = Unread
         /\ req[r].paymentRequired = NoChallenge
         /\ NoLedgerWrite(req[r])

C5_Witness ==
  \E r \in Slots :
    /\ req[r].route = "sign" /\ Answered(r) /\ req[r].status = 404
    /\ ~req[r].readFailed /\ req[r].nRead = 1
    /\ ~agreementExists(req[r].agreementId)

\* A ledger write of the request is under way or was made.
WriteSubmitted(q) ==
  q.pc \in {"simulate", "broadcast", "wait"} \/ q.nSim > 0 \/ q.nSend > 0 \/ q.tx # NoTx

\* C8: in create and in sign a ledger write is submitted only after
\* settlePayment returned success in the same request, after the steps that
\* precede it (upload; existence and signer reads), and the paymentRef written
\* to the ledger and returned in the response is the transaction that
\* settlement returned; nothing is broadcast before it was simulated.
C8_WriteOnlyAfterSettlement ==
  \A r \in Slots :
    /\ WriteSubmitted(req[r])
         => /\ req[r].settledOk /\ req[r].nSettle = 1
            /\ req[r].verifiedOk /\ req[r].nVerify = 1
            /\ req[r].settleTx = TxOf(req[r].header)
            /\ req[r].paymentRef = req[r].settleTx
            /\ req[r].tx.paymentRef = req[r].settleTx
            /\ req[r].nSend <= req[r].nSim
    /\ req[r].nSettle > 0
         => IF req[r].route = "create"
              THEN req[r].nUpload = 1 /\ req[r].cid # 0
              ELSE req[r].nRead = 2
    /\ (Answered(r) /\ req[r].route \in Routes /\ req[r].status = 200)
         => /\ req[r].settledOk
            /\ req[r].respPaymentRef = req[r].settleTx
    /\ \A t \in mempool \cup {x.tx : x \in receipts} :
         \E x \in paid : TxOf(x.proof) = t.paymentRef

C8_Witness ==
  \E r \in Slots :
    /\ Answered(r) /\ req[r].status = 200 /\ req[r].nSend = 1
    /\ req[r].settledOk /\ req[r].respPaymentRef = TxOf(req[r].header)
    /\ \E g \in signed : g.paymentRef = req[r].respPaymentRef

\* C9: the payment gate follows its state machine in every request: settle is
\* called only after verify answered isValid = true in the same request; a
\* failed verification ends the request with 402 and no settle call; a request
\* without a proof ends, challenged, with 402.
C9_PaymentGateStateMachine ==
  \A r \in Slots :
    /\ req[r].nSettle > 0 => (req[r].verdict = "valid" /\ req[r].nVerify = 1)
    /\ req[r].pc = "settle" => req[r].verdict = "valid"
    /\ req[r].verdict = "invalid"
         => (Answered(r) /\ req[r].status = 402 /\ req[r].nSettle = 0 /\ ~req[r].settledOk)
    /\ req[r].header = NoHeader
         => (Answered(r) /\ req[r].status = 402 /\ NoFacilitatorCall(req[r]))
    /\ req[r].nVerify > 0 => req[r].header \in Proofs

C9_Witness ==
  \E r \in Slots :
    /\ Answered(r) /\ req[r].verdict = "invalid" /\ req[r].status = 402
    /\ req[r].nVerify = 1 /\ req[r].nSettle = 0

\* The atomic amount each route charges (USDC, 6 decimals): $0.01 and $0.001.
C10_ExpectedAmount(route) == IF route = "create" THEN 10000 ELSE 1000

\* C10: a protected request that reaches the payment gate without a proof
\* header is answered 402 with a PAYMENT-REQUIRED challenge whose single entry
\* names the scheme, the network, the exact atomic amount of the route and the
\* payee; the facilitator is asked neither to verify nor to settle, and the
\* ledger is not written.
C10_NoProofIsChallenged ==
  \A r \in Slots :
    req[r].header = NoHeader
      => /\ Answered(r)
         /\ req[r].status = 402
         /\ req[r].paymentRequired.x402Version = 2
         /\ Len(req[r].paymentRequired.accepts) = 1
         /\ req[r].paymentRequired.accepts[1].scheme = "exact"
         /\ req[r].paymentRequired.accepts[1].network = PaymentConfigValue.network
         /\ req[r].paymentRequired.accepts[1].amount = C10_ExpectedAmount(req[r].route)
         /\ req[r].paymentRequired.accepts[1].payTo = PaymentConfigValue.payTo
         /\ NoFacilitatorCall(req[r])
         /\ NoLedgerWrite(req[r])

C10_Witness ==
  \E r \in Slots :
    /\ req[r].route = "sign" /\ req[r].header = NoHeader /\ Answered(r)
    /\ req[r].status = 402 /\ req[r].paymentRequired # NoChallenge

Registrations(agreementId) == {c \in created : c.agreementId = agreementId}

\* A create request that settled its payment, has made its existence read, and
\* was issued when the agreement it computes was already registered.
C1_LaterCreate(q) ==
  /\ q.route = "create"
  /\ q.settledOk
  /\ q.nRead >= 1
  /\ RegisteredBefore(q)

\* A create request answered with a new registration.
C1_FirstCreate(q) ==
  /\ q.route = "create"
  /\ q.pc = "done"
  /\ q.status = 200
  /\ q.alreadyExisted = "absent"

\* C1 as stated: of the create requests with the same file, creator and
\* settled paymentRef the first registers the agreement, and every later one,
\* issued after that registration is on the ledger, returns
\* alreadyExisted = true with no new ledger write; one registration is written.
C1_Original ==
  \A r \in Slots :
    /\ C1_LaterCreate(req[r])
         => /\ Answered(r)
            /\ req[r].status = 200
            /\ req[r].alreadyExisted = "true"
            /\ NoLedgerWrite(req[r])
            /\ Cardinality(Registrations(req[r].agreementId)) = 1
    /\ C1_FirstCreate(req[r])
         => Cardinality(Registrations(req[r].agreementId)) = 1

\* C1 amended: one registration is written and a later request never
\* broadcasts another; a later request whose existence read the ledger answers
\* returns alreadyExisted = true without simulating or broadcasting; one whose
\* existence read fails attempts the registration, which the simulation
\* reverts, and ends with a 500.
C1_Idempotent ==
  \A r \in Slots :
    /\ C1_LaterCreate(req[r])
         => /\ Cardinality(Registrations(req[r].agreementId)) = 1
            /\ req[r].nSend = 0
            /\ ~req[r].readFailed
                 => /\ Answered(r)
                    /\ req[r].status = 200
                    /\ req[r].alreadyExisted = "true"
                    /\ req[r].respPaymentRef = req[r].settleTx
                    /\ NoLedgerWrite(req[r])
            /\ req[r].readFailed
                 => \/ req[r].pc = "simulate"
                    \/ Answered(r) /\ req[r].status = 500 /\ req[r].nSim = 1
    /\ C1_FirstCreate(req[r])
         => /\ Cardinality(Registrations(req[r].agreementId)) = 1
            /\ req[r].nSend = 1
            /\ \E c \in created : /\ c.agreementId = req[r].agreementId
                                  /\ c.paymentRef = req[r].settleTx
                                  /\ c.seq > req[r].epoch

\* The first create registered the agreement and a later one, with the same
\* file, creator and proof, was answered alreadyExisted = true.
C1_Witness ==
  \E r, o \in Slots :
    /\ C1_FirstCreate(req[o])
    /\ C1_LaterCreate(req[r]) /\ Answered(r) /\ req[r].alreadyExisted = "true"
    /\ req[r].body = req[o].body /\ req[r].header = req[o].header
    /\ req[r].agreementId = req[o].agreementId
    /\ Cardinality(Registrations(req[r].agreementId)) = 1

\* C6 as stated, for the second of two sign calls in sequence: a sign call
\* issued after the signer's signature is on the ledger, once past its
\* hasSigned read, has been answered 409 and has not invoked the payment gate.
C6_SecondSignIs409 ==
  \A r \in Slots :
    (req[r].route = "sign" /\ req[r].nRead >= 2 /\ SignedBefore(req[r]))
      => /\ Answered(r)
         /\ req[r].status = 409
         /\ NoFacilitatorCall(req[r])
         /\ req[r].header = Unread

\* The sign payments settled for an agreement and signer (one per proof).
SignPayments(body) == {x \in paid : x.route = "sign" /\ x.body = body}

Signatures(body) ==
  {g \in signed : g.agreementId = body.agreementId /\ g.signer = body.signerAddress}

\* No sign request of the pair is between its first step and its answer, and
\* none of its transactions is pending.
SignQuiescent(body) ==
  /\ ~InFlight("sign", body)
  /\ \A t \in mempool :
       ~(t.fn = "recordSignature" /\ t.agreementId = body.agreementId
           /\ t.signer = body.signerAddress)

\* C7 as stated, read at rest and with no external failure at all: for every
\* agreement and signer the settled sign payments do not exceed the signature
\* events on the ledger, of which there is at most one.
C7_NeverPaysTwice ==
  \A body \in SignBodies :
    (faults = 0 /\ SignQuiescent(body))
      => /\ Cardinality(SignPayments(body)) <= Cardinality(Signatures(body))
         /\ Cardinality(Signatures(body)) <= 1

\* C2 as stated: whenever a payment was settled for a create or sign request,
\* the client's retries of that request with the same proof eventually produce
\* the ledger record the payment is for; no payment stays without its record.
C2_ChargedEventuallyRecorded ==
  \A x \in Payments : (x \in paid) ~> RecordFor(x)

\* The agreement or signature the request asked for is on the ledger, whatever
\* payment it was recorded with.
RequestRecorded(x) ==
  IF x.route = "create" THEN RecordFor(x)
  ELSE \E g \in signed : /\ g.agreementId = x.body.agreementId
                         /\ g.signer = x.body.signerAddress

C2_ChargedEventuallyServed ==
  \A x \in Payments : (x \in paid) ~> RequestRecorded(x)

\* C11: a request whose payment header cannot be decoded is answered 400
\* ("Invalid payment header format") and neither verifyPayment nor
\* settlePayment is called for it; no challenge is attached and the ledger is
\* not written.
C11_UndecodableProofIs400 ==
  \A r \in Slots :
    req[r].header = GarbageHeader
      => /\ Answered(r)
         /\ req[r].status = 400
         /\ req[r].error = "Invalid payment header format"
         /\ NoFacilitatorCall(req[r])
         /\ req[r].paymentRequired = NoChallenge
         /\ NoLedgerWrite(req[r])

C11_Witness ==
  \E r \in Slots :
    /\ req[r].route = "create" /\ req[r].header = GarbageHeader
    /\ Answered(r) /\ req[r].status = 400 /\ req[r].nUpload = 1

\* The challenges issued for a route: the 402 responses with PAYMENT-REQUIRED.
ChallengesOf(route) ==
  {req[o].paymentRequired : o \in {x \in Slots : /\ req[x].route = route
                                                 /\ req[x].paymentRequired # NoChallenge}}

\* C12: for a route, the requirements submitted to verifyPayment and to
\* settlePayment (scheme, network, amount, asset, payTo) are the single entry
\* of every 402 challenge issued for that route, and settlePayment gets what
\* verifyPayment got.
C12_SameRequirements ==
  \A r \in Slots :
    /\ \A ch \in ChallengesOf(req[r].route) :
         /\ Len(ch.accepts) = 1
         /\ req[r].nVerify > 0 => req[r].verifyRequirements = ch.accepts[1]
         /\ req[r].nSettle > 0 => req[r].settleRequirements = ch.accepts[1]
    /\ req[r].nVerify > 0 => req[r].verifyRequirements # NoRequirements
    /\ req[r].nSettle > 0 => req[r].settleRequirements = req[r].verifyRequirements

C12_Witness ==
  \E r, o \in Slots :
    /\ req[r].route = req[o].route
    /\ req[o].paymentRequired # NoChallenge
    /\ req[r].settledOk /\ req[r].nVerify = 1 /\ req[r].nSettle = 1
    /\ req[r].settleRequirements = req[o].paymentRequired.accepts[1]

\* The errors a client can get for a failed verification: the facilitator's
\* reason, or the fallback text when it gives none.
VerifyFailureErrors == InvalidReasons \cup {"Payment verification failed"}

\* C13: when settlePayment reports failure (success = false) after a
\* successful verification, the client gets a 402 whose error is none of the
\* errors a verification failure is answered with, whatever reason the
\* facilitator gave for the latter; every verification failure is a 402 with
\* one of those errors.
C13_SettleFailureDistinct ==
  \A r \in Slots :
    /\ req[r].settleOutcome = "declined"
         => /\ Answered(r)
            /\ req[r].verdict = "valid"
            /\ req[r].status = 402
            /\ req[r].error \notin VerifyFailureErrors
    /\ req[r].verdict = "invalid"
         => /\ Answered(r)
            /\ req[r].status = 402
            /\ req[r].error \in VerifyFailureErrors

C13_Witness ==
  \E r, o \in Slots :
    /\ req[r].settleOutcome = "declined" /\ Answered(r) /\ req[r].status = 402
    /\ req[o].verdict = "invalid" /\ Answered(o) /\ req[o].error \in InvalidReasons

\* C14: requests that present the same signed payment proof get the same
\* payment reference from the payment gate, the transaction the facilitator
\* settled the proof with, and the proof is charged on-chain at most once.
C14_SameProofSameRef ==
  /\ \A r, o \in Slots :
       (req[r].settledOk /\ req[o].settledOk /\ req[r].header = req[o].header)
         => req[r].paymentRef = req[o].paymentRef
  /\ \A r \in Slots :
       req[r].settledOk
         => /\ req[r].paymentRef = TxOf(req[r].header)
            /\ charged[req[r].header] = 1
            /\ (Answered(r) /\ req[r].status = 200)
                 => req[r].respPaymentRef = TxOf(req[r].header)
  /\ \A p \in Proofs : charged[p] <= 1

\* A retry: two requests of different times settled the same proof.
C14_Witness ==
  \E r, o \in Slots :
    /\ r # o
    /\ req[r].settledOk /\ req[o].settledOk
    /\ req[r].header = req[o].header /\ req[r].body = req[o].body
    /\ req[r].epoch # req[o].epoch
    /\ req[r].paymentRef = req[o].paymentRef
    /\ charged[req[r].header] = 1

Protected(q) == isProtectedRequest(Method(q.route), Path(q.route))

\* C15: initialization is single-flight and memoized: initialize() was called
\* at most once more than attempts have failed, exactly once more while an
\* attempt is in flight or has succeeded, and once initialization has
\* succeeded no step calls it again or changes the memoized state.
C15_InitSingleFlight ==
  /\ [](/\ x402.nInitialize <= 1 + x402.nFailed
        /\ (x402.initPromise # "null") <=> (x402.nInitialize = x402.nFailed + 1))
  /\ [][x402.initPromise = "resolved"
          => /\ x402'.initPromise = "resolved"
             /\ x402'.nInitialize = x402.nInitialize
             /\ x402'.nFailed = x402.nFailed]_vars

\* Two protected requests await one attempt.
C15_Witness ==
  /\ \A r \in Slots : req[r].pc = "init" /\ Protected(req[r])
  /\ x402.initPromise = "pending"
  /\ x402.nInitialize = 1

\* C16: a failed or timed-out attempt resets the memoized state; no request is
\* left awaiting a promise that is gone, and the next protected request starts
\* a fresh attempt, which can succeed.
C16_InitFailureResets ==
  /\ [][x402'.nFailed > x402.nFailed => x402'.initPromise = "null"]_vars
  /\ [](\A r \in Slots : req[r].pc = "init" => x402.initPromise = "pending")
  /\ [][\A r \in Slots :
          (Free(r) /\ req'[r] # req[r] /\ Protected(req'[r])
             /\ x402.initPromise = "null")
            => /\ x402'.initPromise = "pending"
               /\ x402'.nInitialize = x402.nInitialize + 1
               /\ req'[r].pc = "init"]_vars

\* After a failed attempt a later protected request passed the middleware.
C16_Witness ==
  /\ x402.nFailed >= 1
  /\ x402.initPromise = "resolved"
  /\ \E r, o \in Slots :
       /\ req[o].pc = "done" /\ req[o].status = 500 /\ ~req[o].handlerRan
       /\ Protected(req[r]) /\ req[r].handlerRan /\ req[r].epoch >= req[o].epoch

\* C17: a request to an unprotected route starts no initialization attempt,
\* leaves the initialization state as it is, does not wait for an attempt in
\* flight, and goes to its handler.
C17_UnprotectedSkipsInit ==
  [][\A r \in Slots :
       (Free(r) /\ req'[r] # req[r] /\ req'[r].route \in {"agreement", "other"})
         => /\ x402' = x402
            /\ req'[r].pc # "init"
            /\ req'[r].route = "agreement" => req'[r].handlerRan]_vars

\* An agreement lookup was served while an initialization was in flight.
C17_Witness ==
  \E r, o \in Slots :
    /\ req[r].route = "agreement" /\ req[r].handlerRan
    /\ req[o].pc = "init" /\ x402.initPromise = "pending"
    /\ req[r].epoch >= req[o].epoch

InitFailureMessages == {InitFailures[k] : k \in InitFailureKinds}

\* C18: a protected request awaiting the initialization does not hang: it
\* leaves the wait, to its handler if the initialization succeeded and
\* otherwise (the facilitator never completed and the timeout fired, or the
\* attempt failed) with a 500 whose handler never ran.
C18_InitTimeoutAnswers500 ==
  /\ \A r \in Slots :
       (req[r].pc = "init")
         ~> /\ req[r].pc # "init"
            /\ IF x402.initPromise = "resolved" THEN req[r].handlerRan
               ELSE /\ Answered(r) /\ req[r].status = 500
                    /\ req[r].error \in InitFailureMessages
                    /\ ~req[r].handlerRan
  /\ [](\A r \in Slots :
          (Answered(r) /\ Protected(req[r]) /\ ~req[r].handlerRan)
            => /\ req[r].status = 500
               /\ req[r].error \in InitFailureMessages
               /\ req[r].hasRequestId
               /\ req[r].nUpload = 0 /\ req[r].nRead = 0
               /\ NoFacilitatorCall(req[r]) /\ NoLedgerWrite(req[r]))

\* The timeout answered a waiting request.
C18_Witness ==
  \E r \in Slots :
    /\ Protected(req[r]) /\ Answered(r) /\ req[r].status = 500
    /\ req[r].error = InitFailures["timeout"] /\ ~req[r].handlerRan

\* The creation records of a document, creator and payment reference.
RecordsOf(docHash, creator, paymentRef) ==
  {c \in created : c.docHash = docHash /\ c.creator = creator /\ c.paymentRef = paymentRef}

\* The request passed the application-level existence check (the read
\* answered false) and went on to register.
PassedExistsCheck(q) ==
  q.route = "create" /\ q.nRead = 1 /\ ~q.readFailed /\ q.alreadyExisted = "absent"
    /\ q.tx.fn = "registerAgreement"

\* C19: under every interleaving of create requests the ledger holds at most
\* one creation record for a document, creator and payment reference, under
\* the agreementId computed from them, and exactly one once a create request
\* for them was answered 200; requests that both passed the existence check
\* leave one record.
C19_OneCreationRecord ==
  /\ \A c \in created :
       /\ RecordsOf(c.docHash, c.creator, c.paymentRef) = {c}
       /\ Registrations(c.agreementId) = {c}
       /\ c.agreementId = computeAgreementId(c.docHash, c.creator, c.paymentRef)
  /\ \A r \in Slots :
       (req[r].route = "create" /\ Answered(r) /\ req[r].status = 200)
         => Cardinality(RecordsOf(req[r].docHash, req[r].body.creatorAddress,
                                  req[r].paymentRef)) = 1

\* Two concurrent creates of one document, creator and proof both passed the
\* existence check and broadcast; one record is on the ledger.
C19_Witness ==
  \E r, o \in Slots :
    /\ r # o
    /\ PassedExistsCheck(req[r]) /\ PassedExistsCheck(req[o])
    /\ req[r].agreementId = req[o].agreementId
    /\ req[r].nSend = 1 /\ req[o].nSend = 1
    /\ Answered(r) /\ Answered(o)
    /\ mempool = {}
    /\ Cardinality(Registrations(req[r].agreementId)) = 1

\* The receipt of the transaction reports it reverted.
Reverted(t) == \E x \in receipts : x.tx = t /\ x.status = "reverted"

\* The ledger holds the record the transaction wrote.
Wrote(t) ==
  /\ \E x \in receipts : x.tx = t /\ x.status = "success"
  /\ IF t.fn = "registerAgreement"
       THEN \E c \in created : c.agreementId = t.agreementId /\ c.paymentRef = t.paymentRef
       ELSE \E g \in signed : /\ g.agreementId = t.agreementId /\ g.signer = t.signer
                              /\ g.paymentRef = t.paymentRef

\* C20 as stated: an attempt whose transaction was included and reverted ends
\* as an error, and a response with confirmed = true is given only when the
\* ledger holds the record that transaction wrote.
C20_ConfirmedIsLedgerTruth ==
  \A r \in Slots :
    /\ (Answered(r) /\ req[r].nSend = 1 /\ Reverted(req[r].tx)) => req[r].status >= 500
    /\ (Answered(r) /\ req[r].confirmed) => Wrote(req[r].respTx)

\* The events of the id on the ledger when block b was the latest.
CreatedBy(agreementId, b) ==
  {c \in created : c.agreementId = agreementId /\ c.blockNumber <= b}

SignedBy(agreementId, b) ==
  {g \in signed : g.agreementId = agreementId /\ g.blockNumber <= b}

\* C21 as stated: the lookup is a complete read of the ledger as of the block it
\* read: a malformed id is answered 400; an id with a creation event is answered
\* with that event's data and every signature event of the id; 404 is answered
\* only when the ledger has no creation event for the id.
C21_LookupIsCompleteRead ==
  \A r \in Slots :
    (req[r].route = "agreement" /\ Answered(r) /\ ~req[r].readFailed)
      => LET id == req[r].body.agreementId
             b == req[r].readBlock
         IN /\ (id = 0) <=> (req[r].status = 400)
            /\ (req[r].status = 404) => CreatedBy(id, b) = {}
            /\ (id # 0 /\ CreatedBy(id, b) # {})
                 => /\ req[r].status = 200
                    /\ \E c \in CreatedBy(id, b) :
                         /\ req[r].agreementId = c.agreementId
                         /\ req[r].docHash = c.docHash /\ req[r].cid = c.cid
                         /\ req[r].respCreator.address = c.creator
                         /\ req[r].respCreator.paymentRef = c.paymentRef
                    /\ req[r].respSigners = {SignerEntry(g) : g \in SignedBy(id, b)}

\* C22: every error response (4xx, 5xx) of /api/create, /api/sign and
\* /api/agreement/:id carries an error message and the request's requestId,
\* whichever path produced it: validation, upload, payment gate, ledger,
\* initialization failure, uncaught exception.
C22_ErrorsCarryMessageAndRequestId ==
  \A r \in Slots :
    (/\ Answered(r) /\ req[r].route \in {"create", "sign", "agreement"}
     /\ req[r].status >= 400)
      => /\ req[r].error # ""
         /\ req[r].hasRequestId

\* An uncaught exception in a handler (a failed getLogs, a thrown facilitator
\* call, a reverted simulation) was answered by app.onError.
C22_Witness ==
  \E r \in Slots :
    /\ Answered(r) /\ req[r].handlerRan /\ req[r].status = 500
    /\ req[r].error # "" /\ req[r].hasRequestId

\* C23 as stated: a create request that made a new ledger registration is
\* answered with alreadyExisted present and false; one the existence check
\* short-circuited is answered with alreadyExisted = true.
C23_AlreadyExistedField ==
  \A r \in Slots :
    (req[r].route = "create" /\ Answered(r) /\ req[r].status = 200)
      => IF req[r].nSend = 0
           THEN req[r].alreadyExisted = "true"
           ELSE req[r].alreadyExisted = "false"

\* C24: computeAgreementId is deterministic and collision-free over fixed-width
\* inputs: for two triples of a 32-byte fingerprint, a 20-byte creator and a
\* 32-byte payment reference it returns two 32-byte identifiers, equal when
\* the triples are equal and different when they differ in any field.
C24_IdDeterministicCollisionFree ==
  (call.fn = "computeAgreementId" /\ call.done
   /\ call.args[1] \in FixedWidthTriples /\ call.args[2] \in FixedWidthTriples)
    => /\ call.result[1].kind = "ok" /\ call.result[2].kind = "ok"
       /\ isBytes32(call.result[1].value) /\ isBytes32(call.result[2].value)
       /\ (call.result[1] = call.result[2]) <=> (call.args[1] = call.args[2])

\* Two triples whose fields would give the same characters when joined without
\* padding got different identifiers.
C24_Witness ==
  /\ call.fn = "computeAgreementId" /\ call.done
  /\ call.args[1] = Triple(<<"0", "x">> \o Repeat("0", 62) \o <<"1", "1">>,
                           AddressEnding(<<"2">>), WordLow("1"))
  /\ call.args[2] = Triple(WordLow("1"), AddressEnding(<<"1", "2">>), WordLow("1"))
  /\ call.result[1].kind = "ok" /\ call.result[2].kind = "ok"
  /\ call.result[1] # call.result[2]

\* C25 as stated: computeAgreementId called with a creator that is no 20-byte
\* address (too short, too long, not hex) returns no identifier and throws a
\* ValidationError, the error app.onError answers with 400.
C25_BadCreatorIsValidationError ==
  (call.fn = "computeAgreementId" /\ call.done /\ ~isAddress(call.args[1].creator))
    => /\ call.result[1].kind # "ok"
       /\ call.result[1].value = <<>>
       /\ call.result[1].kind = "ValidationError"
       /\ onError(IdleReq, call.result[1].kind, "Invalid creatorAddress").status = 400

\* C26: hashAgreement is a deterministic function of the text whose result is a
\* 0x-prefixed 32-byte hex string of 66 characters: the same text gives the
\* same bytes32, whatever the text (empty, plain, or looking like a hex value).
C26_HashAgreementIsBytes32 ==
  (call.fn = "hashAgreement" /\ call.done)
    => /\ \A i \in {1, 2} :
            /\ call.result[i].kind = "ok"
            /\ Len(call.result[i].value) = 66
            /\ StartsWith0x(call.result[i].value)
            /\ isBytes32(call.result[i].value)
       /\ (call.args[1] = call.args[2]) => (call.result[1] = call.result[2])

\* The same text was hashed twice, and a different text gave a different hash.
C26_Witness ==
  /\ call.fn = "hashAgreement" /\ call.done
  /\ call.args = <<<<"h", "i">>, <<"h", "i">>>>
  /\ call.result[1] = call.result[2]
  /\ isBytes32(call.result[1].value)
  /\ hashAgreement(<<"h", "i", "i">>) # call.result[1]

\* C27 as stated: the payment reference the settlement returned is checked to
\* be a 32-byte hex value before it is used: a malformed one gives no
\* agreementId and fails with a validation error (a 400 naming paymentRef).
C27_PaymentRefValidated ==
  (call.fn = "create" /\ call.done /\ ~isBytes32(call.args[1]))
    => /\ call.result[1].kind = "ValidationError"
       /\ call.result[1].value = <<>>

\* C28: checkAgreementExists and checkHasSigned never throw: every read the
\* create and sign handlers made gave them a boolean; a read that failed gave
\* false, and true was given only when the ledger read itself answered true.
C28_ReadsNeverThrow ==
  \A r \in Slots :
    req[r].route \in Routes
      => /\ Len(req[r].readResults) = req[r].nRead
         /\ Len(req[r].readAnswers) = req[r].nRead
         /\ \A i \in 1..Len(req[r].readResults) :
              /\ req[r].readResults[i] \in BOOLEAN
              /\ (req[r].readAnswers[i] = "threw") => ~req[r].readResults[i]
              /\ req[r].readResults[i] <=> (req[r].readAnswers[i] = "true")

\* A create whose existence read failed went on to its write, and a sign read
\* answered true.
C28_Witness ==
  \E r, o \in Slots :
    /\ req[r].route = "create" /\ req[r].readAnswers = <<"threw">>
    /\ req[r].readResults = <<FALSE>> /\ req[r].nSim = 1
    /\ req[o].route = "sign" /\ Len(req[o].readAnswers) >= 1 /\ req[o].readAnswers[1] = "true"
    /\ req[o].readResults[1]

\* A create request whose existence read failed while the ledger held the
\* agreement.
FalseNegativeCreate(q) ==
  /\ q.route = "create"
  /\ q.readAnswers = <<"threw">>
  /\ q.readTruth = <<TRUE>>

\* C29: when the existence read of a create fails for an agreementId that is
\* already registered, the duplicate write is safe: its simulation reverts and
\* ends the request, nothing is broadcast, and the ledger holds exactly one
\* creation record for the id.
C29_FalseNegativeIsSafe ==
  \A r \in Slots :
    FalseNegativeCreate(req[r])
      => /\ ~req[r].readResults[1]
         /\ req[r].nSend = 0
         /\ req[r].pc \in {"simulate", "done"}
         /\ Answered(r) => (req[r].status = 500 /\ req[r].nSim = 1 /\ ~req[r].confirmed)
         /\ Cardinality(Registrations(req[r].agreementId)) = 1

\* Such a request was answered with the revert its simulation predicted.
C29_Witness ==
  \E r \in Slots :
    /\ FalseNegativeCreate(req[r]) /\ Answered(r)
    /\ req[r].error = "execution reverted" /\ req[r].nSim = 1 /\ req[r].nSend = 0
    /\ Cardinality(Registrations(req[r].agreementId)) = 1

\* C30 as stated: a sign request by a signer whose signature of the agreement
\* is on the ledger never has its payment settled, whether its ledger reads
\* succeed or fail.
C30_AlreadySignedNeverSettles ==
  \A r \in Slots :
    (/\ req[r].route = "sign" /\ Len(req[r].readTruth) = 2
     /\ req[r].readTruth[2])
      => /\ req[r].nSettle = 0
         /\ ~req[r].settledOk

\* ------------------------------------------------------------------- C31

\* The call a request broadcast, whatever nonce it was signed under.
SentCall(q) == [q.tx EXCEPT !.dup = FALSE]

\* C31: every ledger write is simulated before it is broadcast.  A request
\* that called sendRawTransaction had simulateContract succeed, once, for
\* the same call; a request whose simulation predicted a revert ends with
\* the revert error, has signed and broadcast nothing, and simulated once
\* only (no automatic retry).
C31_SimulatedBeforeBroadcast ==
  \A r \in Slots :
    /\ req[r].nSend > 0
         => /\ req[r].simOutcome = "ok"
            /\ req[r].nSim = 1
            /\ req[r].simTx = SentCall(req[r])
    /\ req[r].pc = "broadcast" => req[r].simOutcome = "ok" /\ req[r].simTx = req[r].tx
    /\ req[r].simOutcome = "revert"
         => /\ req[r].pc = "done"
            /\ req[r].status = 500
            /\ req[r].error = "execution reverted"
            /\ req[r].nSim = 1
            /\ req[r].nSend = 0
            /\ ~req[r].rpcAccepted

\* A simulation predicted a revert and the request ended there, while another
\* request broadcast the call it had simulated.
C31_Witness ==
  \E r, x \in Slots :
    /\ req[r].simOutcome = "revert"
    /\ req[r].pc = "done"
    /\ req[x].nSend = 1
    /\ req[x].simOutcome = "ok"

\* ------------------------------------------------------------------- C32

\* C32: a broadcast answered "already known" is not an error.  The request
\* goes on to await the receipt with the hash of its own signed payload, which
\* is the hash of the transaction the node already holds; its result says the
\* node did not accept it from this call (rpcAccepted = false), and it is
\* answered confirmed = true exactly when the receipt was obtained (both
\* handlers request confirmation): when the wait fails the request ends with
\* that error and no result.  Any other broadcast error is rethrown.
C32_AlreadyKnownIsNotAnError ==
  \A r \in Slots :
    /\ req[r].sendOutcome = "known"
         => /\ req[r].pc \in {"wait", "done"}
            /\ ~req[r].rpcAccepted
            /\ Known(req[r].tx)
            /\ req[r].error # "already known"
            /\ req[r].pc = "done"
                 => \/ /\ req[r].status = 200
                       /\ req[r].confirmed
                       /\ req[r].respTx = req[r].tx
                       /\ HasReceipt(req[r].tx)
                    \/ /\ req[r].status = 500
                       /\ req[r].error = "waitForTransactionReceipt failed"
                       /\ ~req[r].confirmed
    /\ req[r].sendOutcome = "failed"
         => /\ req[r].pc = "done"
            /\ req[r].status = 500
            /\ req[r].error = "sendRawTransaction failed"
            /\ ~req[r].rpcAccepted

\* A request whose broadcast was answered "already known" returned the hash
\* of the transaction another request had sent, confirmed.
C32_Witness ==
  \E r \in Slots :
    /\ req[r].sendOutcome = "known"
    /\ req[r].pc = "done"
    /\ req[r].status = 200
    /\ req[r].confirmed
    /\ ~req[r].rpcAccepted

\* ------------------------------------------------------------------- C33

\* C33: upstream failures are surfaced and never retried inside a request.
\* Within one create or sign request the storage upload, verifyPayment,
\* settlePayment and sendRawTransaction are each called at most once, and a
\* request in which one of them failed has ended with an error response.
C33_NoInternalRetry ==
  \A r \in Slots :
    /\ req[r].nUpload <= 1
    /\ req[r].nVerify <= 1
    /\ req[r].nSettle <= 1
    /\ req[r].nSend <= 1
    /\ (req[r].route = "create" /\ req[r].nUpload = 1 /\ req[r].cid = 0)
         => req[r].pc = "done" /\ req[r].status = 502
    /\ req[r].verdict = "threw"
         => req[r].pc = "done" /\ req[r].status = 500 /\ req[r].nSettle = 0
    /\ req[r].settleOutcome = "threw"
         => req[r].pc = "done" /\ req[r].status = 500 /\ req[r].nSend = 0
    /\ req[r].settleOutcome = "declined"
         => req[r].pc = "done" /\ req[r].status = 402 /\ req[r].nSend = 0
    /\ req[r].sendOutcome = "failed"
         => req[r].pc = "done" /\ req[r].status = 500

\* A request made each upstream call once, its broadcast failed and it ended
\* with that error.
C33_Witness ==
  \E r \in Slots :
    /\ req[r].route = "create"
    /\ req[r].nUpload = 1 /\ req[r].nVerify = 1 /\ req[r].nSettle = 1 /\ req[r].nSend = 1
    /\ req[r].sendOutcome = "failed"
    /\ req[r].pc = "done"
    /\ req[r].status = 500

\* ------------------------------------------------------------------- C34

RECURSIVE Pow10(_)
Pow10(n) == IF n = 0 THEN 1 ELSE 10 * Pow10(n - 1)

\* W * 10^6 plus D right-padded to six digits.
AtomicAmount(whole, fraction) ==
  DecimalValue(whole) * Pow10(6) + DecimalValue(fraction) * Pow10(6 - Len(fraction))

\* The text is "$W" or "$W.D" for digit strings W and D.
IsPriceFormat(price) ==
  \E w \in Wholes, d \in Fractions : price = PriceText(w, d)

C35_LogRangeBounded ==
  (call.fn = "fromBlock" /\ call.done)
    => /\ call.result[1] >= call.args[2]
       /\ call.args[1] - call.result[1] <= 99999

\* The range was computed for a head more than 99,999 blocks past the
\* deployment block, and the lower bound was moved up.
C35_Witness ==
  /\ call.fn = "fromBlock" /\ call.done
  /\ call.args[1] - call.args[2] > 99999
  /\ call.result[1] > call.args[2]
  /\ call.args[1] - call.result[1] = 99999

\* ------------------------------------------------------------------- C36

\* C36: at any time at most one resourceServer.initialize() call is in
\* flight, also after an earlier attempt was abandoned by the timeout.
C36_OneInitializeInFlight == x402.inFlight <= 1

\* ------------------------------------------------------------------- C37

\* C37: when the existence read fails during sign, the request is answered
\* 404 without invoking the payment gate and without any ledger write, even
\* if the agreement is registered.
C37_FailedExistsReadIs404 ==
  \A r \in Slots :
    (req[r].route = "sign" /\ Len(req[r].readAnswers) >= 1 /\ req[r].readAnswers[1] = "threw")
      => /\ req[r].pc = "done"
         /\ req[r].status = 404
         /\ req[r].error = "Agreement not found"
         /\ req[r].nRead = 1
         /\ NoFacilitatorCall(req[r])
         /\ req[r].paymentRequired = NoChallenge
         /\ NoLedgerWrite(req[r])

\* A sign request for a registered agreement whose existence read failed was
\* answered 404.
C37_Witness ==
  \E r \in Slots :
    /\ req[r].route = "sign"
    /\ req[r].readAnswers = <<"threw">>
    /\ req[r].readTruth = <<TRUE>>
    /\ req[r].status = 404

\* ------------------------------------------------------------------- C38

\* C38: a create or sign request answered with a 4xx status (400, 402, 404,
\* 409) has settled no payment and has submitted no ledger write: it neither
\* simulated nor broadcast a transaction, so it left the ledger unchanged.
C38_ClientErrorHasNoEffect ==
  \A r \in Slots :
    (req[r].route \in Routes /\ req[r].pc = "done"
       /\ req[r].status >= 400 /\ req[r].status <= 499)
      => /\ req[r].status \in {400, 402, 404, 409}
         /\ ~req[r].settledOk
         /\ req[r].settleOutcome \in {"none", "declined"}
         /\ NoLedgerWrite(req[r])
         /\ ~req[r].rpcAccepted

\* A request whose settlement the facilitator declined was answered 402.
C38_Witness ==
  \E r \in Slots :
    /\ req[r].route \in Routes
    /\ req[r].pc = "done"
    /\ req[r].status = 402
    /\ req[r].nSettle = 1
    /\ req[r].settleOutcome = "declined"

\* ------------------------------------------------------------------- C39

\* C39: in every successful create response and the registration it submits
\* the fields are consistent: agreementId = computeAgreementId(docHash,
\* creator, paymentRef) for this request's document, creator and settlement
\* reference, and the record written to the ledger carries exactly the
\* agreementId, docHash, creator and paymentRef returned to the client.
C39_CreateFieldsConsistent ==
  (call.fn = "registerAgreement" /\ call.done /\ call.result[1].kind = "ok")
    => LET response == call.result[1].value.response
           record == call.result[1].value.record
       IN /\ response.paymentRef = call.args[1]
          /\ response.agreementId =
               computeAgreementIdHex(response.docHash, response.creator,
                                     response.paymentRef).value
          /\ record.agreementId = response.agreementId
          /\ record.docHash = response.docHash
          /\ record.creator = response.creator
          /\ record.paymentRef = response.paymentRef
====
